---- MODULE Spec2Model ----
(***************************************************************************)
(* Volunteer evaluation backend (zad_backend): the evaluation scoring and  *)
(* aggregation handlers of src/evaluations.js, the freeze cap, the         *)
(* transaction helper, the alert and criteria handlers of src/alerts.js    *)
(* and the trend helper of the comparison report.                          *)
(*                                                                         *)
(* Numbers.  Scores, maximum scores and weights are fixed-point numbers    *)
(* counted in tenths (10 stands for 1.0, 100 for 10.0); a weighted score   *)
(* is a product of two of them and is counted in hundredths; a percentage  *)
(* is counted in hundredths of a percent, which is exactly what the code's *)
(* Math.round(x * 100) / 100 keeps.                                        *)
(*                                                                         *)
(* JavaScript values are records tagged with their type, so that           *)
(* undefined, null, NaN, numbers, strings and booleans stay distinct and   *)
(* parseFloat, || and Math.min/Math.max are computed as JavaScript does.   *)
(***************************************************************************)
EXTENDS Integers, Sequences, FiniteSets, TLC

VARIABLES
    evaluation_criteria,   \* table evaluation_criteria: id -> row
    evaluations,           \* table evaluations: set of rows
    evaluation_details,    \* table evaluation_details: evaluation id -> its rows,
                           \* in insertion order (ids without rows are left out)
    freeze_records,        \* table freeze_records: rows in insertion order
    alert_records,         \* table alert_records: set of rows
    cumulative_notes,      \* table cumulative_notes: rows in insertion order
    next_id,               \* the next generated primary key of each table
    requests,              \* requests in flight: slot -> position and locals
    response               \* the last response sent, with the request it answers

vars == <<evaluation_criteria, evaluations, evaluation_details, freeze_records,
          alert_records, cumulative_notes, next_id, requests, response>>

-----------------------------------------------------------------------------
(* Bounds of the model *)

\* longest criteria_scores array a request submits
MaxScores == 2
\* number of evaluation ids the store hands out in one behaviour
MaxIds == 3
\* months of the year the create requests name
MaxMonths == 1
\* requests in flight at once
MaxRequests == 3
\* evaluations a volunteer has when the alert behaviours start
HistoryMonths == 3
\* evaluations of the volunteer whose trend the report analyses
MaxTrend == 4
\* alert ids handed out before the alert behaviours stop creating alerts
MaxAlerts == 2

-----------------------------------------------------------------------------
(* JavaScript values *)

Undefined == [t |-> "undefined"]
Null == [t |-> "null"]
NaN == [t |-> "nan"]
Num(n) == [t |-> "num", n |-> n]
Str(s) == [t |-> "str", s |-> s]
Bool(b) == [t |-> "bool", b |-> b]
Obj(o) == [t |-> "object", o |-> o]
Arr(a) == [t |-> "array", a |-> a]

\* ToBoolean: undefined, null, NaN, 0, "" and false are falsy
Truthy(x) ==
    CASE x.t = "undefined" -> FALSE
      [] x.t = "null" -> FALSE
      [] x.t = "nan" -> FALSE
      [] x.t = "num" -> x.n # 0
      [] x.t = "str" -> x.s # <<>>
      [] x.t = "bool" -> x.b
      [] OTHER -> TRUE

\* a || b
JsOr(a, b) == IF Truthy(a) THEN a ELSE b

DigitValue ==
    [c \in {"0", "1", "2", "3", "4", "5", "6", "7", "8", "9"} |->
        CASE c = "0" -> 0 [] c = "1" -> 1 [] c = "2" -> 2 [] c = "3" -> 3
          [] c = "4" -> 4 [] c = "5" -> 5 [] c = "6" -> 6 [] c = "7" -> 7
          [] c = "8" -> 8 [] c = "9" -> 9]

IsDigit(c) == c \in DOMAIN DigitValue

\* length of the longest prefix of s made of digits
RECURSIVE DigitRun(_)
DigitRun(s) ==
    IF s = <<>> \/ ~IsDigit(Head(s)) THEN 0 ELSE 1 + DigitRun(Tail(s))

\* value of a sequence of digits, most significant first
RECURSIVE DigitsValue(_)
DigitsValue(s) ==
    IF s = <<>> THEN 0
    ELSE DigitsValue(SubSeq(s, 1, Len(s) - 1)) * 10 + DigitValue[s[Len(s)]]

\* parseFloat of a string: optional sign, digits, optional fraction; what
\* follows the number is ignored; no number at the start gives NaN.  The
\* result is in tenths: the first fractional digit is kept.
ParseFloatString(s) ==
    LET signed == s # <<>> /\ s[1] \in {"-", "+"}
        body == IF signed THEN Tail(s) ELSE s
        n == DigitRun(body)
        rest == SubSeq(body, n + 1, Len(body))
        hasFrac == Len(rest) >= 2 /\ rest[1] = "." /\ IsDigit(rest[2])
        mag == DigitsValue(SubSeq(body, 1, n)) * 10
               + (IF hasFrac THEN DigitValue[rest[2]] ELSE 0)
    IN  IF n = 0 /\ ~hasFrac THEN NaN
        ELSE Num(IF signed /\ s[1] = "-" THEN 0 - mag ELSE mag)

\* parseFloat(x): the argument is converted to a string first
ParseFloat(x) ==
    CASE x.t = "num" -> x
      [] x.t = "str" -> ParseFloatString(x.s)
      [] OTHER -> NaN

\* Math.min(a, b) and Math.max(a, b) on numbers: NaN if either is NaN
MathMin(a, b) ==
    IF a.t = "nan" \/ b.t = "nan" THEN NaN
    ELSE Num(IF a.n <= b.n THEN a.n ELSE b.n)

MathMax(a, b) ==
    IF a.t = "nan" \/ b.t = "nan" THEN NaN
    ELSE Num(IF a.n >= b.n THEN a.n ELSE b.n)

\* Math.round(n / d) for d > 0: the nearest integer, a tie going up
MathRoundDiv(n, d) == (2 * n + d) \div (2 * d)

-----------------------------------------------------------------------------
(* Stored data the handlers only read *)

\* table volunteers: id -> row
Volunteers ==
    [v \in {"v1", "v2"} |->
        [role_type |-> IF v = "v1" THEN "member" ELSE "leader",
         is_active |-> TRUE]]

\* req.user as authenticateToken leaves it
Users ==
    [u \in {"admin", "eval1", "eval2"} |->
        [id |-> u, role |-> IF u = "admin" THEN "admin" ELSE "evaluator"]]

\* A weight column as the database driver hands it to the handler: a
\* JavaScript number for a floating-point column, a decimal string for a
\* DECIMAL column.  The schema is not part of the sources, so both builds
\* are possible; Init chooses one.
WeightColumn(tenths, asString) ==
    IF asString
    THEN Str(CASE tenths = 0 -> <<"0", ".", "0">>
               [] tenths = 10 -> <<"1", ".", "0">>
               [] tenths = 15 -> <<"1", ".", "5">>
               [] tenths = 20 -> <<"2", ".", "0">>)
    ELSE Num(tenths)

CriteriaIds == {"quality", "attend", "interact", "remark", "extra", "retired", "lead"}

\* the rows of evaluation_criteria the behaviours start from
CriteriaTable(asString) ==
    [c \in CriteriaIds |->
        [id |-> c,
         name_ar |-> CASE c = "interact" -> <<"tafaol">>
                       [] c = "attend" -> <<"hudur", "group">>
                       [] OTHER -> <<"plain">>,
         data_type |-> CASE c = "attend" -> "boolean"
                         [] c = "interact" -> "choice"
                         [] c = "remark" -> "text"
                         [] OTHER -> "numeric",
         max_score |-> IF c = "attend" THEN 50 ELSE 100,
         weight |-> WeightColumn(
                        CASE c = "quality" -> 20
                          [] c = "interact" -> 15
                          [] c = "extra" -> 0
                          [] OTHER -> 10, asString),
         applies_to_role |-> IF c = "lead" THEN "leader" ELSE "all",
         is_active |-> c # "retired",
         choices |-> IF c = "interact"
                     THEN Obj([l \in {<<"t", "o", "p">>, <<"l", "o", "w">>, <<"n", "o">>,
                                      <<"o", "v", "e", "r">>} |->
                              CASE l = <<"t", "o", "p">> -> Num(100)
                                [] l = <<"l", "o", "w">> -> Num(20)
                                [] l = <<"n", "o">> -> Num(0)
                                [] l = <<"o", "v", "e", "r">> -> Num(120)])
                     ELSE Null]]

-----------------------------------------------------------------------------
(* Score resolution and aggregation: the criteria_scores loop *)

\* the criteria query without its role condition
AvailableCriteriaAnyRole(criteria, role) ==
    {criteria[c] : c \in {d \in DOMAIN criteria : criteria[d].is_active}}

\* SELECT * FROM evaluation_criteria WHERE is_active = true
\*   AND (applies_to_role = $1 OR applies_to_role = 'all')
AvailableCriteria(criteria, role) ==
    {criteria[c] : c \in {d \in DOMAIN criteria :
        /\ criteria[d].is_active
        /\ (criteria[d].applies_to_role = role \/ criteria[d].applies_to_role = "all")}}

\* choices[choice_value] on (criterion.choices || {})
ChoiceLookup(choices, choice_value) ==
    IF choices.t = "object" /\ choice_value.t = "str" /\ choice_value.s \in DOMAIN choices.o
    THEN choices.o[choice_value.s]
    ELSE Undefined

\* FinalScore without the upper clamp: Math.max(0, parseFloat(score_value) || 0)
FinalScoreUnclamped(criterion, criteriaScore) ==
    IF /\ criterion.data_type = "numeric"
       /\ criteriaScore.score_value # Undefined
       /\ criteriaScore.score_value # Null
    THEN MathMax(Num(0), JsOr(ParseFloat(criteriaScore.score_value), Num(0)))
    ELSE IF criterion.data_type = "boolean"
    THEN IF criteriaScore.boolean_value = Bool(TRUE) THEN Num(criterion.max_score) ELSE Num(0)
    ELSE IF criterion.data_type = "choice" /\ Truthy(criteriaScore.choice_value)
    THEN JsOr(ChoiceLookup(criterion.choices, criteriaScore.choice_value),
              Num((criterion.max_score * 8) \div 10))
    ELSE Num(0)

\* finalScore of one submitted entry against its criterion
FinalScore(criterion, criteriaScore) ==
    IF /\ criterion.data_type = "numeric"
       /\ criteriaScore.score_value # Undefined
       /\ criteriaScore.score_value # Null
    THEN MathMax(Num(0), MathMin(JsOr(ParseFloat(criteriaScore.score_value), Num(0)),
                                 Num(criterion.max_score)))
    ELSE IF criterion.data_type = "boolean"
    THEN IF criteriaScore.boolean_value = Bool(TRUE) THEN Num(criterion.max_score) ELSE Num(0)
    ELSE IF criterion.data_type = "choice" /\ Truthy(criteriaScore.choice_value)
    THEN JsOr(ChoiceLookup(criterion.choices, criteriaScore.choice_value),
              Num((criterion.max_score * 8) \div 10))
    ELSE Num(0)

\* parseFloat(criterion.weight || 1), in tenths
WeightFactor(criterion) == ParseFloat(JsOr(criterion.weight, Num(10))).n

\* finalScore * parseFloat(criterion.weight || 1), in hundredths
WeightedScore(criterion, finalScore) == finalScore.n * WeightFactor(criterion)

\* parseFloat(criterion.max_score || 10) * parseFloat(criterion.weight || 1)
MaxWeightedScore(criterion) ==
    ParseFloat(JsOr(Num(criterion.max_score), Num(100))).n * WeightFactor(criterion)

\* the row INSERT INTO evaluation_details writes for one matched entry
DetailRow(evaluationId, criterion, criteriaScore, finalScore) ==
    [evaluation_id |-> evaluationId,
     criteria_id |-> criteriaScore.criteria_id,
     score_value |-> JsOr(finalScore, Null),
     text_value |-> JsOr(criteriaScore.text_value, Null),
     choice_value |-> JsOr(criteriaScore.choice_value, Null),
     boolean_value |-> JsOr(criteriaScore.boolean_value, Null),
     weight_used |-> ParseFloat(criterion.weight).n]

\* for (const criteriaScore of criteria_scores) { ... }: the rows inserted
\* and the two running sums
RECURSIVE ScoreLoop(_, _, _, _)
ScoreLoop(criteria_scores, availableCriteria, evaluationId, acc) ==
    IF criteria_scores = <<>> THEN acc
    ELSE LET criteriaScore == Head(criteria_scores)
             found == {c \in availableCriteria : c.id = criteriaScore.criteria_id}
         IN  IF found = {}
             THEN ScoreLoop(Tail(criteria_scores), availableCriteria, evaluationId, acc)
             ELSE LET criterion == CHOOSE c \in found : TRUE
                      finalScore == FinalScore(criterion, criteriaScore)
                  IN  ScoreLoop(Tail(criteria_scores), availableCriteria, evaluationId,
                          [details |-> Append(acc.details,
                               DetailRow(evaluationId, criterion, criteriaScore, finalScore)),
                           totalScore |-> acc.totalScore
                               + WeightedScore(criterion, finalScore),
                           maxPossibleScore |-> acc.maxPossibleScore
                               + MaxWeightedScore(criterion)])

\* Percentage with Math.floor in place of Math.round
PercentageTruncated(totalScore, maxPossibleScore) ==
    IF maxPossibleScore > 0
    THEN (totalScore * 10000) \div maxPossibleScore
    ELSE 0

\* maxPossibleScore > 0 ? Math.round((totalScore / maxPossibleScore) * 100 * 100) / 100 : 0
\* in hundredths of a percent
Percentage(totalScore, maxPossibleScore) ==
    IF maxPossibleScore > 0
    THEN MathRoundDiv(totalScore * 10000, maxPossibleScore)
    ELSE 0

-----------------------------------------------------------------------------
(* The store and the transaction helper *)

\* the tables a transaction of the evaluation handlers writes
Store == [evaluations |-> evaluations,
          evaluation_details |-> evaluation_details,
          freeze_records |-> freeze_records]

\* SELECT * FROM evaluation_details WHERE evaluation_id = $1
DetailsOf(table, id) == IF id \in DOMAIN table THEN table[id] ELSE <<>>

\* INSERT INTO evaluation_details, once per row of rows, for evaluation id
InsertDetails(table, id, rows) ==
    IF rows = <<>> THEN table
    ELSE [i \in DOMAIN table \cup {id} |-> IF i = id THEN DetailsOf(table, id) \o rows
                                           ELSE table[i]]

\* DELETE FROM evaluation_details WHERE evaluation_id = $1
DeleteDetails(table, id) == [i \in DOMAIN table \ {id} |-> table[i]]

\* a callback that ran to its end on work, or threw leaving work behind
Returned(work) == [threw |-> FALSE, store |-> work]
Threw(work) == [threw |-> TRUE, store |-> work]

\* transaction without the ROLLBACK: what the callback wrote before it threw
\* stays
TransactionWithoutRollback(before, run) == run.store

\* transaction(callback): BEGIN, callback(client), COMMIT; ROLLBACK and
\* rethrow when the callback throws
Transaction(before, run) == IF run.threw THEN before ELSE run.store

\* the queries of a handler that can fail; failing none is "none"
FailPoints ==
    {[at |-> a, k |-> 0] : a \in {"none", "insert_evaluation", "update_totals",
                                  "insert_freeze", "update_fields", "delete_details"}}
    \cup {[at |-> "insert_detail", k |-> k] : k \in 1..MaxScores}

NoFailure == [at |-> "none", k |-> 0]

-----------------------------------------------------------------------------
(* POST /api/evaluations *)

\* the row INSERT INTO evaluations ... 'draft' writes; the totals are set by
\* the UPDATE that follows in the same transaction
NewEvaluation(id, user, body) ==
    [id |-> id,
     volunteer_id |-> body.volunteer_id,
     evaluator_id |-> Users[user].id,
     evaluation_month |-> body.evaluation_month,
     evaluation_year |-> body.evaluation_year,
     is_frozen |-> body.is_frozen,
     freeze_reason |-> JsOr(body.freeze_reason, Null),
     freeze_start_date |-> JsOr(body.freeze_start_date, Null),
     freeze_end_date |-> JsOr(body.freeze_end_date, Null),
     human_note |-> JsOr(body.human_note, Null),
     status |-> "draft",
     total_score |-> 0,
     max_possible_score |-> 0,
     percentage |-> 0]

\* UPDATE evaluations SET total_score, max_possible_score, percentage WHERE id
SetTotals(rows, id, totalScore, maxPossibleScore) ==
    {IF e.id = id
     THEN [e EXCEPT !.total_score = totalScore,
                    !.max_possible_score = maxPossibleScore,
                    !.percentage = Percentage(totalScore, maxPossibleScore)]
     ELSE e : e \in rows}

\* the row INSERT INTO freeze_records writes
FreezeRow(body) ==
    [volunteer_id |-> body.volunteer_id,
     freeze_year |-> body.evaluation_year,
     is_active |-> TRUE]

\* SELECT id FROM evaluations WHERE volunteer_id, evaluation_month, evaluation_year
ExistingEvaluation(rows, body) ==
    {e \in rows : /\ e.volunteer_id = body.volunteer_id
                  /\ e.evaluation_month = body.evaluation_month
                  /\ e.evaluation_year = body.evaluation_year}

\* SELECT COUNT(*) FROM freeze_records WHERE volunteer_id, freeze_year, is_active
FreezeCount(rows, volunteer_id, year) ==
    Cardinality({i \in DOMAIN rows : /\ rows[i].volunteer_id = volunteer_id
                                     /\ rows[i].freeze_year = year
                                     /\ rows[i].is_active})

\* the yearly freeze cap of the handler
FreezeLimit == 2

\* SELECT * FROM volunteers WHERE id = $1 AND is_active = true
VolunteerCheck(body) ==
    IF \/ body.volunteer_id \notin DOMAIN Volunteers
       \/ ~Volunteers[body.volunteer_id].is_active
    THEN "VOLUNTEER_NOT_FOUND"
    ELSE "OK"

\* if (existingEvaluationResult.rows.length > 0)
ExistingCheck(rows, body) ==
    IF ExistingEvaluation(rows, body) # {} THEN "EVALUATION_EXISTS" ELSE "OK"

\* the freeze data check asking for the reason only
FreezeDataCheckReasonOnly(body) ==
    IF body.is_frozen /\ ~Truthy(body.freeze_reason)
    THEN "INCOMPLETE_FREEZE_DATA"
    ELSE "OK"

\* if (is_frozen) { if (!freeze_reason || !freeze_start_date || !freeze_end_date)
FreezeDataCheck(body) ==
    IF body.is_frozen /\ (\/ ~Truthy(body.freeze_reason)
                          \/ ~Truthy(body.freeze_start_date)
                          \/ ~Truthy(body.freeze_end_date))
    THEN "INCOMPLETE_FREEZE_DATA"
    ELSE "OK"

\* FreezeLimitCheck with the cap compared by > instead of >=
FreezeLimitCheckOffByOne(freezes, body) ==
    IF /\ body.is_frozen
       /\ FreezeCount(freezes, body.volunteer_id, body.evaluation_year) > FreezeLimit
    THEN "FREEZE_LIMIT_EXCEEDED"
    ELSE "OK"

\* if (is_frozen) { ... if (parseInt(freezeCountResult.rows[0].count) >= 2)
FreezeLimitCheck(freezes, body) ==
    IF /\ body.is_frozen
       /\ FreezeCount(freezes, body.volunteer_id, body.evaluation_year) >= FreezeLimit
    THEN "FREEZE_LIMIT_EXCEEDED"
    ELSE "OK"

\* the checks before the transaction, in the handler's order: the response
\* code of the first one that rejects the request, "OK" when all pass
CreateChecks(rows, freezes, body) ==
    IF VolunteerCheck(body) # "OK" THEN VolunteerCheck(body)
    ELSE IF ExistingCheck(rows, body) # "OK" THEN ExistingCheck(rows, body)
    ELSE IF FreezeDataCheck(body) # "OK" THEN FreezeDataCheck(body)
    ELSE FreezeLimitCheck(freezes, body)

\* the callback of the create transaction, run on store work; fail names the
\* query that throws, if it is reached
CreateCallback(work, criteria, id, user, body, fail) ==
    LET evaluation == NewEvaluation(id, user, body)
        s1 == [work EXCEPT !.evaluations = @ \cup {evaluation}]
        availableCriteria ==
            AvailableCriteria(criteria, Volunteers[body.volunteer_id].role_type)
        loop == ScoreLoop(body.criteria_scores, availableCriteria, id,
                    [details |-> <<>>, totalScore |-> 0, maxPossibleScore |-> 0])
        s2 == [s1 EXCEPT !.evaluation_details = InsertDetails(@, id, loop.details)]
        s3 == [s2 EXCEPT !.evaluations =
                  SetTotals(@, id, loop.totalScore, loop.maxPossibleScore)]
        s4 == IF body.is_frozen
              THEN [s3 EXCEPT !.freeze_records = Append(@, FreezeRow(body))]
              ELSE s3
    IN  IF fail.at = "insert_evaluation" THEN Threw(work)
        ELSE IF fail.at = "insert_detail" /\ fail.k <= Len(loop.details)
        THEN Threw([s1 EXCEPT !.evaluation_details =
                        InsertDetails(@, id, SubSeq(loop.details, 1, fail.k - 1))])
        ELSE IF fail.at = "update_totals" THEN Threw(s2)
        ELSE IF fail.at = "insert_freeze" /\ body.is_frozen THEN Threw(s3)
        ELSE Returned(s4)

\* HTTP status of a response code
StatusOf(code) ==
    CASE code \in {"CREATED"} -> 201
      [] code \in {"OK"} -> 200
      [] code \in {"INCOMPLETE_FREEZE_DATA", "VALIDATION", "INVALID_COMPARISON_COUNT"} -> 400
      [] code \in {"UNAUTHORIZED_EDIT", "UNAUTHORIZED_APPROVAL", "ADMIN_REQUIRED"} -> 403
      [] code \in {"VOLUNTEER_NOT_FOUND", "EVALUATION_NOT_FOUND", "ALERT_NOT_FOUND",
                   "VOLUNTEERS_NOT_FOUND", "CRITERION_NOT_FOUND"} -> 404
      [] code \in {"EVALUATION_EXISTS", "FREEZE_LIMIT_EXCEEDED", "EVALUATION_APPROVED",
                   "ALREADY_APPROVED", "ALERT_ALREADY_RESOLVED", "CRITERION_IN_USE"} -> 409
      [] OTHER -> 500

\* res.status(...).json(...): the response, with the request it answers
Reply(op, code, user, id, body) ==
    [op |-> op, code |-> code, status |-> StatusOf(code),
     user |-> user, id |-> id, body |-> body]

\* the store after the handler, given the store it started from
WriteStore(after) ==
    /\ evaluations' = after.evaluations
    /\ evaluation_details' = after.evaluation_details
    /\ freeze_records' = after.freeze_records

\* ids are handed out once: the counter moves past every id in the table
NextEvaluationId(rows) ==
    IF \E e \in rows : e.id >= next_id.evaluations
    THEN next_id.evaluations + 1
    ELSE next_id.evaluations

\* router.post('/'): one whole create request
CreateEvaluation(user, body, fail) ==
    LET check == CreateChecks(evaluations, freeze_records, body)
        run == CreateCallback(Store, evaluation_criteria, next_id.evaluations,
                              user, body, fail)
        after == Transaction(Store, run)
    IN  /\ IF check # "OK"
           THEN /\ response' = Reply("create", check, user, 0, body)
                /\ UNCHANGED <<evaluations, evaluation_details, freeze_records, next_id>>
           ELSE /\ WriteStore(after)
                /\ next_id' = [next_id EXCEPT
                                  !.evaluations = NextEvaluationId(after.evaluations)]
                /\ response' = Reply("create",
                                     IF run.threw THEN "CREATE_EVALUATION_ERROR"
                                     ELSE "CREATED",
                                     user, next_id.evaluations, body)
        /\ UNCHANGED <<evaluation_criteria, alert_records, cumulative_notes, requests>>

-----------------------------------------------------------------------------
(* PUT /api/evaluations/:id *)

\* SELECT * FROM evaluations WHERE id = $1
EvaluationById(rows, id) == {e \in rows : e.id = id}

\* the columns the dynamic UPDATE sets: one per field of the body that is
\* not undefined (praise_note and improvement_suggestions are handled as
\* human_note is, and are left out)
UpdatedFields(body) ==
    {f \in {"human_note", "is_frozen", "freeze_reason", "freeze_start_date",
            "freeze_end_date"} : body[f] # Undefined}

\* the dynamic UPDATE also setting status back to 'draft'
SetFieldsReopening(rows, id, body) ==
    {IF e.id = id
     THEN [f \in DOMAIN e |->
              IF f = "status" THEN "draft"
              ELSE IF f \in UpdatedFields(body)
              THEN (IF f = "is_frozen" THEN Truthy(body[f]) ELSE body[f])
              ELSE e[f]]
     ELSE e : e \in rows}

\* UPDATE evaluations SET <fields of the body> WHERE id = $n RETURNING *
SetFields(rows, id, body) ==
    {IF e.id = id
     THEN [f \in DOMAIN e |->
              IF f \in UpdatedFields(body)
              THEN (IF f = "is_frozen" THEN Truthy(body[f]) ELSE body[f])
              ELSE e[f]]
     ELSE e : e \in rows}

\* the checks without the one on the status of the evaluation
UpdateChecksOwnerOnly(rows, id, user) ==
    IF EvaluationById(rows, id) = {} THEN "EVALUATION_NOT_FOUND"
    ELSE LET oldEvaluation == CHOOSE e \in EvaluationById(rows, id) : TRUE
         IN  IF Users[user].role # "admin" /\ oldEvaluation.evaluator_id # Users[user].id
             THEN "UNAUTHORIZED_EDIT"
             ELSE "OK"

\* the checks before the transaction: the response code of the first one
\* that rejects the request, "OK" when all pass
UpdateChecks(rows, id, user) ==
    IF EvaluationById(rows, id) = {} THEN "EVALUATION_NOT_FOUND"
    ELSE LET oldEvaluation == CHOOSE e \in EvaluationById(rows, id) : TRUE
         IN  IF Users[user].role # "admin" /\ oldEvaluation.evaluator_id # Users[user].id
             THEN "UNAUTHORIZED_EDIT"
             ELSE IF oldEvaluation.status = "approved" /\ Users[user].role # "admin"
             THEN "EVALUATION_APPROVED"
             ELSE "OK"

\* UpdateCallback without the DELETE of the old details: the new rows are
\* added to the old ones
UpdateCallbackKeepingDetails(work, criteria, oldEvaluation, body, fail) ==
    LET id == oldEvaluation.id
        availableCriteria ==
            AvailableCriteria(criteria, Volunteers[oldEvaluation.volunteer_id].role_type)
        loop == ScoreLoop(body.criteria_scores.a, availableCriteria, id,
                    [details |-> <<>>, totalScore |-> 0, maxPossibleScore |-> 0])
    IN  IF Truthy(body.criteria_scores) /\ Len(body.criteria_scores.a) > 0
        THEN Returned([work EXCEPT
                 !.evaluation_details = InsertDetails(@, id, loop.details),
                 !.evaluations = SetTotals(@, id, loop.totalScore, loop.maxPossibleScore)])
        ELSE Returned(work)

\* the callback of the update transaction, run on store work for the
\* evaluation read before it (oldEvaluation)
UpdateCallback(work, criteria, oldEvaluation, body, fail) ==
    LET id == oldEvaluation.id
        anyField == UpdatedFields(body) # {}
        s1 == IF anyField
              THEN [work EXCEPT !.evaluations = SetFields(@, id, body)]
              ELSE work
        rescoring == Truthy(body.criteria_scores) /\ Len(body.criteria_scores.a) > 0
        s2 == [s1 EXCEPT !.evaluation_details = DeleteDetails(@, id)]
        availableCriteria ==
            AvailableCriteria(criteria, Volunteers[oldEvaluation.volunteer_id].role_type)
        loop == ScoreLoop(body.criteria_scores.a, availableCriteria, id,
                    [details |-> <<>>, totalScore |-> 0, maxPossibleScore |-> 0])
        s3 == [s2 EXCEPT !.evaluation_details = InsertDetails(@, id, loop.details)]
        s4 == [s3 EXCEPT !.evaluations =
                  SetTotals(@, id, loop.totalScore, loop.maxPossibleScore)]
    IN  IF anyField /\ (fail.at = "update_fields" \/ EvaluationById(work.evaluations, id) = {})
        THEN Threw(work)
        ELSE IF ~rescoring THEN Returned(s1)
        ELSE IF fail.at = "delete_details" THEN Threw(s1)
        ELSE IF fail.at = "insert_detail" /\ fail.k <= Len(loop.details)
        THEN Threw([s2 EXCEPT !.evaluation_details =
                        InsertDetails(@, id, SubSeq(loop.details, 1, fail.k - 1))])
        ELSE IF fail.at = "update_totals" THEN Threw(s3)
        ELSE Returned(s4)

\* router.put('/:id'): one whole update request
UpdateEvaluation(user, id, body, fail) ==
    LET check == UpdateChecks(evaluations, id, user)
        oldEvaluation == CHOOSE e \in EvaluationById(evaluations, id) : TRUE
        run == UpdateCallback(Store, evaluation_criteria, oldEvaluation, body, fail)
        after == Transaction(Store, run)
    IN  /\ IF check # "OK"
           THEN /\ response' = Reply("update", check, user, id, body)
                /\ UNCHANGED <<evaluations, evaluation_details, freeze_records>>
           ELSE /\ WriteStore(after)
                /\ response' = Reply("update",
                                     IF run.threw THEN "UPDATE_EVALUATION_ERROR" ELSE "OK",
                                     user, id, body)
        /\ UNCHANGED <<evaluation_criteria, alert_records, cumulative_notes, requests,
                       next_id>>

-----------------------------------------------------------------------------
(* PATCH /api/evaluations/:id/approve and DELETE /api/evaluations/:id *)

\* the checks without the one on the status of the evaluation
ApproveChecksRepeatable(rows, id, user) ==
    IF EvaluationById(rows, id) = {} THEN "EVALUATION_NOT_FOUND"
    ELSE LET evaluation == CHOOSE e \in EvaluationById(rows, id) : TRUE
         IN  IF Users[user].role # "admin" /\ evaluation.evaluator_id # Users[user].id
             THEN "UNAUTHORIZED_APPROVAL"
             ELSE "OK"

\* the checks before the UPDATE: the response code of the first one that
\* rejects the request, "OK" when all pass
ApproveChecks(rows, id, user) ==
    IF EvaluationById(rows, id) = {} THEN "EVALUATION_NOT_FOUND"
    ELSE LET evaluation == CHOOSE e \in EvaluationById(rows, id) : TRUE
         IN  IF Users[user].role # "admin" /\ evaluation.evaluator_id # Users[user].id
             THEN "UNAUTHORIZED_APPROVAL"
             ELSE IF evaluation.status = "approved" THEN "ALREADY_APPROVED"
             ELSE "OK"

\* UPDATE evaluations SET status = 'approved' WHERE id = $2
SetApproved(rows, id) ==
    {IF e.id = id THEN [e EXCEPT !.status = "approved"] ELSE e : e \in rows}

\* router.patch('/:id/approve'): one whole approve request
ApproveEvaluation(user, id) ==
    LET check == ApproveChecks(evaluations, id, user)
    IN  /\ evaluations' = IF check = "OK" THEN SetApproved(evaluations, id)
                          ELSE evaluations
        /\ response' = Reply("approve", check, user, id, Null)
        /\ UNCHANGED <<evaluation_criteria, evaluation_details, freeze_records,
                       alert_records, cumulative_notes, requests, next_id>>

\* the callback of the delete transaction
DeleteCallback(work, id) ==
    Returned([work EXCEPT !.evaluation_details = DeleteDetails(@, id),
                          !.evaluations = {e \in @ : e.id # id}])

\* router.delete('/:id'): one whole delete request (requireAdmin first)
DeleteEvaluation(user, id) ==
    LET check == IF Users[user].role # "admin" THEN "ADMIN_REQUIRED"
                 ELSE IF EvaluationById(evaluations, id) = {} THEN "EVALUATION_NOT_FOUND"
                 ELSE "OK"
        after == Transaction(Store, DeleteCallback(Store, id))
    IN  /\ IF check = "OK" THEN WriteStore(after)
           ELSE UNCHANGED <<evaluations, evaluation_details, freeze_records>>
        /\ response' = Reply("delete", check, user, id, Null)
        /\ UNCHANGED <<evaluation_criteria, alert_records, cumulative_notes, requests,
                       next_id>>

-----------------------------------------------------------------------------
(* Alerts: POST /api/alerts, PATCH /api/alerts/:id/resolve,                *)
(* DELETE /api/alerts/:id, POST /api/alerts/check-automatic                *)

\* CURRENT_DATE of the behaviours
Today == [year |-> 2025, month |-> 3]

\* the year the create requests name
ThisYear == Today.year

AlertTypes == {"weak_performance", "no_interaction", "improvement_needed", "achievement"}
Severities == {"low", "medium", "high"}

\* the row INSERT INTO alert_records writes; is_resolved defaults to false
AlertRow(id, volunteer_id, alert_type, severity, trigger_condition, alert_message, consecutive_months) ==
    [id |-> id, volunteer_id |-> volunteer_id, alert_type |-> alert_type,
     severity |-> severity, trigger_condition |-> trigger_condition,
     alert_message |-> alert_message, consecutive_months |-> consecutive_months,
     is_resolved |-> FALSE, resolved_by |-> Null, resolution_notes |-> Null]

\* the validators of POST /api/alerts
AlertBodyValid(body) ==
    /\ body.alert_type \in AlertTypes
    /\ body.severity \in Severities
    /\ Truthy(body.alert_message)

\* the manual alert request refusing a volunteer who has an open alert of the
\* type already
CreateAlertUnlessOpen(user, body) ==
    LET code == IF ~AlertBodyValid(body) THEN "VALIDATION"
                ELSE IF body.volunteer_id \notin DOMAIN Volunteers
                THEN "VOLUNTEER_NOT_FOUND"
                ELSE IF \E ar \in alert_records : /\ ar.volunteer_id = body.volunteer_id
                                                  /\ ar.alert_type = body.alert_type
                                                  /\ ar.is_resolved = FALSE
                THEN "ALERT_EXISTS"
                ELSE "CREATED"
    IN  /\ IF code = "CREATED"
           THEN /\ alert_records' = alert_records \cup
                       {AlertRow(next_id.alert_records, body.volunteer_id, body.alert_type,
                                 body.severity, Obj(<<>>), body.alert_message, 0)}
                /\ next_id' = [next_id EXCEPT !.alert_records = @ + 1]
           ELSE UNCHANGED <<alert_records, next_id>>
        /\ response' = Reply("create_alert", code, user, next_id.alert_records, body)
        /\ UNCHANGED <<evaluation_criteria, evaluations, evaluation_details,
                       freeze_records, cumulative_notes, requests>>

\* router.post('/'): one whole manual alert request
CreateAlert(user, body) ==
    LET code == IF ~AlertBodyValid(body) THEN "VALIDATION"
                ELSE IF body.volunteer_id \notin DOMAIN Volunteers
                THEN "VOLUNTEER_NOT_FOUND"
                ELSE "CREATED"
    IN  /\ IF code = "CREATED"
           THEN /\ alert_records' = alert_records \cup
                       {AlertRow(next_id.alert_records, body.volunteer_id, body.alert_type,
                                 body.severity, Obj(<<>>), body.alert_message, 0)}
                /\ next_id' = [next_id EXCEPT !.alert_records = @ + 1]
           ELSE UNCHANGED <<alert_records, next_id>>
        /\ response' = Reply("create_alert", code, user, next_id.alert_records, body)
        /\ UNCHANGED <<evaluation_criteria, evaluations, evaluation_details,
                       freeze_records, cumulative_notes, requests>>

\* SELECT * FROM alert_records WHERE id = $1
AlertById(rows, id) == {a \in rows : a.id = id}

\* UPDATE alert_records SET is_resolved = true, resolved_by, resolution_notes
SetResolved(rows, id, user, resolution_notes) ==
    {IF a.id = id
     THEN [a EXCEPT !.is_resolved = TRUE, !.resolved_by = Str(<<Users[user].id>>),
                    !.resolution_notes = JsOr(resolution_notes, Null)]
     ELSE a : a \in rows}

\* the row INSERT INTO cumulative_notes writes when an alert is resolved
ResolutionNote(alert, user, resolution_notes) ==
    [volunteer_id |-> alert.volunteer_id, note_type |-> "improvement",
     content |-> <<alert.alert_message, resolution_notes>>,
     created_by |-> Users[user].id]

\* router.patch('/:id/resolve'): one whole resolve request; fail names the
\* query that throws, if any
ResolveAlert(user, id, resolution_notes, fail) ==
    LET found == AlertById(alert_records, id)
        alert == CHOOSE a \in found : TRUE
        code == IF found = {} THEN "ALERT_NOT_FOUND"
                ELSE IF alert.is_resolved THEN "ALERT_ALREADY_RESOLVED"
                ELSE IF fail.at \in {"update_alert", "insert_note"}
                THEN "RESOLVE_ALERT_ERROR"
                ELSE "OK"
    IN  /\ alert_records' =
              IF code = "OK" \/ (code = "RESOLVE_ALERT_ERROR" /\ fail.at = "insert_note")
              THEN SetResolved(alert_records, id, user, resolution_notes)
              ELSE alert_records
        /\ cumulative_notes' =
              IF code = "OK"
              THEN Append(cumulative_notes, ResolutionNote(alert, user, resolution_notes))
              ELSE cumulative_notes
        /\ response' = Reply("resolve_alert", code, user, id, resolution_notes)
        /\ UNCHANGED <<evaluation_criteria, evaluations, evaluation_details,
                       freeze_records, requests, next_id>>

\* router.delete('/:id'): one whole alert delete request (requireAdmin first)
DeleteAlert(user, id) ==
    LET code == IF Users[user].role # "admin" THEN "ADMIN_REQUIRED"
                ELSE IF AlertById(alert_records, id) = {} THEN "ALERT_NOT_FOUND"
                ELSE "OK"
    IN  /\ alert_records' = IF code = "OK" THEN {a \in alert_records : a.id # id}
                            ELSE alert_records
        /\ response' = Reply("delete_alert", code, user, id, Null)
        /\ UNCHANGED <<evaluation_criteria, evaluations, evaluation_details,
                       freeze_records, cumulative_notes, requests, next_id>>

\* the rows of one evaluation without those of a criterion
RECURSIVE WithoutCriterion(_, _)
WithoutCriterion(rows, id) ==
    IF rows = <<>> THEN <<>>
    ELSE IF Head(rows).criteria_id = id THEN WithoutCriterion(Tail(rows), id)
    ELSE <<Head(rows)>> \o WithoutCriterion(Tail(rows), id)

\* DELETE FROM evaluation_details WHERE criteria_id = $1
DeleteCriterionDetails(table, id) ==
    LET kept == {i \in DOMAIN table : WithoutCriterion(table[i], id) # <<>>}
    IN  [i \in kept |-> WithoutCriterion(table[i], id)]

\* SELECT COUNT(*) FROM evaluation_details WHERE criteria_id = $1
UsageCount(table, id) ==
    Cardinality({p \in UNION {{<<i, k>> : k \in DOMAIN table[i]} : i \in DOMAIN table} :
                    table[p[1]][p[2]].criteria_id = id})

\* criteria router.delete('/:id'): one whole criterion delete request
\* (requireAdmin first); force is the query parameter, undefined when absent
DeleteCriterion(user, id, force) ==
    LET usageCount == UsageCount(evaluation_details, id)
        code == IF Users[user].role # "admin" THEN "ADMIN_REQUIRED"
                ELSE IF id \notin DOMAIN evaluation_criteria THEN "CRITERION_NOT_FOUND"
                ELSE IF usageCount > 0 /\ ~Truthy(force) THEN "CRITERION_IN_USE"
                ELSE "OK"
    IN  /\ IF code = "OK"
           THEN /\ evaluation_details' =
                       IF usageCount > 0
                       THEN DeleteCriterionDetails(evaluation_details, id)
                       ELSE evaluation_details
                /\ evaluation_criteria' =
                       [c \in DOMAIN evaluation_criteria \ {id} |-> evaluation_criteria[c]]
           ELSE UNCHANGED <<evaluation_details, evaluation_criteria>>
        /\ response' = Reply("delete_criterion", code, user, id, force)
        /\ UNCHANGED <<evaluations, freeze_records, alert_records, cumulative_notes,
                       requests, next_id>>

\* the percentage below which an evaluation is weak, in hundredths of a percent
WeakThreshold == 6000
\* the number of weak evaluations that raises the alert
WeakMonths == 3
\* the score below which an interaction detail counts, in tenths
InteractionThreshold == 30
\* the number of interaction rows that raises the alert
InteractionMonths == 2

\* the query without its NOT EXISTS clause
NoOpenAlertUnchecked(alerts, volunteer_id, alert_type) == TRUE

\* NOT EXISTS (SELECT 1 FROM alert_records ar WHERE ar.volunteer_id = ...
\*   AND ar.alert_type = ... AND ar.is_resolved = false)
NoOpenAlert(alerts, volunteer_id, alert_type) ==
    ~\E ar \in alerts : /\ ar.volunteer_id = volunteer_id
                        /\ ar.alert_type = alert_type
                        /\ ar.is_resolved = FALSE

\* the consecutive_weak rows of one volunteer: FROM evaluations WHERE
\* percentage < 60 AND status = 'approved'
\* AND evaluation_year >= EXTRACT(YEAR FROM CURRENT_DATE) - 1
WeakEvaluations(rows, volunteer_id) ==
    {e \in rows : /\ e.volunteer_id = volunteer_id
                  /\ e.percentage < WeakThreshold
                  /\ e.status = "approved"
                  /\ e.evaluation_year >= Today.year - 1}

\* weakPerformanceQuery: the volunteers it returns
WeakPerformanceResult(rows, alerts) ==
    {v \in DOMAIN Volunteers :
        /\ Cardinality(WeakEvaluations(rows, v)) >= WeakMonths
        /\ NoOpenAlert(alerts, v, "weak_performance")}

\* ec.name_ar ILIKE '%word%'
ILike(name_ar, word) == \E i \in DOMAIN name_ar : name_ar[i] = word

\* the joined rows of noInteractionQuery for one volunteer, as pairs of an
\* evaluation and the index of one of its details.  AND binds tighter than
\* OR: WHERE ec.name_ar ILIKE '%tafaol%' OR (ec.name_ar ILIKE '%group%' AND
\* (score IS NULL OR score < 3) AND approved AND this year AND
\* month >= this month - 2 AND NOT frozen)
NoInteractionRows(rows, details, criteria, volunteer_id) ==
    {p \in UNION {{<<e, i>> : i \in DOMAIN DetailsOf(details, e.id)} :
                     e \in {x \in rows : x.volunteer_id = volunteer_id}} :
        LET e == p[1]
            ed == DetailsOf(details, e.id)[p[2]]
        IN  /\ ed.criteria_id \in DOMAIN criteria
            /\ \/ ILike(criteria[ed.criteria_id].name_ar, "tafaol")
               \/ /\ ILike(criteria[ed.criteria_id].name_ar, "group")
                  /\ (ed.score_value = Null \/ ed.score_value.n < InteractionThreshold)
                  /\ e.status = "approved"
                  /\ e.evaluation_year = Today.year
                  /\ e.evaluation_month >= Today.month - 2
                  /\ e.is_frozen = FALSE}

\* noInteractionQuery: the volunteers it returns
NoInteractionResult(rows, details, criteria, alerts) ==
    {v \in DOMAIN Volunteers :
        /\ Cardinality(NoInteractionRows(rows, details, criteria, v)) >= InteractionMonths
        /\ NoOpenAlert(alerts, v, "no_interaction")}

\* the rows of a query result, one after the other (SQL fixes no order; the
\* model takes one)
RECURSIVE InOrder(_)
InOrder(S) ==
    IF S = {} THEN <<>>
    ELSE LET x == CHOOSE y \in S : TRUE IN <<x>> \o InOrder(S \ {x})

\* for (const record of result.rows) { INSERT INTO alert_records ... }:
\* one alert per row, with the count the row carries
RECURSIVE InsertAutomatic(_, _, _, _, _, _, _)
InsertAutomatic(alerts, id, records, alert_type, severity, type, threshold) ==
    IF records = <<>> THEN [alerts |-> alerts, id |-> id]
    ELSE LET record == Head(records)
             row == AlertRow(id, record.volunteer_id, alert_type, severity,
                        Obj([type |-> type, months |-> record.months,
                             threshold |-> threshold]),
                        Str(<<alert_type, record.volunteer_id>>), record.months)
         IN  InsertAutomatic(alerts \cup {row}, id + 1, Tail(records), alert_type,
                             severity, type, threshold)

\* router.post('/check-automatic'): one whole automatic check (requireAdmin
\* first): rule A query and inserts, then rule B query and inserts
CheckAutomatic(user) ==
    LET weak == InOrder({[volunteer_id |-> v,
                          months |-> Cardinality(WeakEvaluations(evaluations, v))] :
                            v \in WeakPerformanceResult(evaluations, alert_records)})
        afterA == InsertAutomatic(alert_records, next_id.alert_records, weak,
                                  "weak_performance", "high",
                                  "consecutive_weak_performance", 60)
        silent == InOrder({[volunteer_id |-> v,
                            months |-> Cardinality(NoInteractionRows(evaluations,
                                           evaluation_details, evaluation_criteria, v))] :
                              v \in NoInteractionResult(evaluations, evaluation_details,
                                        evaluation_criteria, afterA.alerts)})
        afterB == InsertAutomatic(afterA.alerts, afterA.id, silent,
                                  "no_interaction", "medium",
                                  "no_group_interaction", 3)
    IN  /\ IF Users[user].role # "admin"
           THEN /\ response' = Reply("check_automatic", "ADMIN_REQUIRED", user, 0, Null)
                /\ UNCHANGED <<alert_records, next_id>>
           ELSE /\ alert_records' = afterB.alerts
                /\ next_id' = [next_id EXCEPT !.alert_records = afterB.id]
                /\ response' = Reply("check_automatic", "OK", user, 0,
                                     Num(Len(weak) + Len(silent)))
        /\ UNCHANGED <<evaluation_criteria, evaluations, evaluation_details,
                       freeze_records, cumulative_notes, requests>>

-----------------------------------------------------------------------------
(* Reports: GET /api/reports/comparison and its trend helper.  Percentages *)
(* are counted in hundredths of a percent; a mean is kept as the quotient  *)
(* of a total and a count, and two means are compared exactly.             *)

DigitChars == <<"0", "1", "2", "3", "4", "5", "6", "7", "8", "9">>

\* the decimal digits of a natural number
RECURSIVE Digits(_)
Digits(n) ==
    IF n < 10 THEN <<DigitChars[n + 1]>>
    ELSE Append(Digits(n \div 10), DigitChars[(n % 10) + 1])

\* a value of a two-decimal column as text: 5500 is "55.00"
DecimalString(h) ==
    Digits(h \div 100) \o <<".", DigitChars[((h \div 10) % 10) + 1], DigitChars[(h % 10) + 1]>>

\* the percentage column as the database driver hands it to the handler: a
\* JavaScript number for a floating-point column, a decimal string for a
\* DECIMAL column, as for the weight column
PercentageColumn(h, asString) ==
    IF asString THEN Str(DecimalString(h)) ELSE Num(h)

\* String(x) of a number or a string; a number prints without its zero
\* fraction
JsToString(x) ==
    IF x.t = "str" THEN x.s
    ELSE IF x.n % 100 = 0 THEN Digits(x.n \div 100)
    ELSE IF x.n % 10 = 0
    THEN SubSeq(DecimalString(x.n), 1, Len(DecimalString(x.n)) - 1)
    ELSE DecimalString(x.n)

\* a + b: the sum of two numbers, the concatenation when either is a string
JsPlus(a, b) ==
    IF a.t = "num" /\ b.t = "num" THEN Num(a.n + b.n)
    ELSE Str(JsToString(a) \o JsToString(b))

\* Number(x), as the division applies it to its left operand: a string is
\* a number when the whole of it is digits with at most one fraction
JsToNumber(x) ==
    IF x.t # "str" THEN x
    ELSE LET n == DigitRun(x.s)
             rest == SubSeq(x.s, n + 1, Len(x.s))
             frac == SubSeq(rest, 2, Len(rest))
         IN  IF x.s = <<>> THEN Num(0)
             ELSE IF n = 0 THEN NaN
             ELSE IF rest = <<>> THEN Num(DigitsValue(SubSeq(x.s, 1, n)) * 100)
             ELSE IF rest[1] = "." /\ frac # <<>> /\ DigitRun(frac) = Len(frac)
             THEN Num(DigitsValue(SubSeq(x.s, 1, n)) * 100
                      + DigitsValue(SubSeq(frac \o <<"0">>, 1, 2)))
             ELSE NaN

\* scores.reduce((sum, score) => sum + score, sum)
RECURSIVE Reduce(_, _)
Reduce(scores, sum) ==
    IF scores = <<>> THEN sum ELSE Reduce(Tail(scores), JsPlus(sum, Head(scores)))

\* scores.reduce((sum, score) => sum + score, 0) / scores.length
Average(scores) ==
    LET total == JsToNumber(Reduce(scores, Num(0)))
    IN  IF total.t = "nan" \/ scores = <<>> THEN NaN
        ELSE [t |-> "quotient", n |-> total.n, d |-> Len(scores)]

\* secondAvg - firstAvg > bound, which is false when either mean is NaN
DifferenceAbove(firstAvg, secondAvg, bound) ==
    /\ firstAvg.t # "nan" /\ secondAvg.t # "nan"
    /\ secondAvg.n * firstAvg.d - firstAvg.n * secondAvg.d > bound * firstAvg.d * secondAvg.d

\* secondAvg - firstAvg < bound, which is false when either mean is NaN
DifferenceBelow(firstAvg, secondAvg, bound) ==
    /\ firstAvg.t # "nan" /\ secondAvg.t # "nan"
    /\ secondAvg.n * firstAvg.d - firstAvg.n * secondAvg.d < bound * firstAvg.d * secondAvg.d

\* the difference of the means beyond which a trend is not stable
TrendThreshold == 500

\* analyzeTrend(evaluations): the rows of one volunteer, in the order of
\* the query
analyzeTrend(rows) ==
    IF Len(rows) < 3 THEN [trend |-> "insufficient", direction |-> "stable"]
    ELSE LET scores == [i \in 1..Len(rows) |-> rows[i].percentage]
             half == Len(scores) \div 2
             firstAvg == Average(SubSeq(scores, 1, half))
             secondAvg == Average(SubSeq(scores, half + 1, Len(scores)))
         IN  IF DifferenceAbove(firstAvg, secondAvg, TrendThreshold)
             THEN [trend |-> "improving", direction |-> "improving"]
             ELSE IF DifferenceBelow(firstAvg, secondAvg, 0 - TrendThreshold)
             THEN [trend |-> "declining", direction |-> "declining"]
             ELSE [trend |-> "stable", direction |-> "stable"]

\* the rows of evaluationsQuery for one volunteer: approved evaluations of
\* the year, ORDER BY evaluation_month, each column as the driver hands it
RECURSIVE ByMonth(_, _)
ByMonth(rows, asString) ==
    IF rows = {} THEN <<>>
    ELSE LET e == CHOOSE x \in rows : \A y \in rows : x.evaluation_month <= y.evaluation_month
         IN  <<[volunteer_id |-> e.volunteer_id,
                evaluation_month |-> e.evaluation_month,
                percentage |-> PercentageColumn(e.percentage, asString),
                status |-> e.status]>> \o ByMonth(rows \ {e}, asString)

\* router.get('/comparison'): one whole comparison report for the
\* volunteers named, reduced to the trend of each
ComparisonReport(user, volunteer_ids, year) ==
    LET asString == \E c \in DOMAIN evaluation_criteria :
                        evaluation_criteria[c].weight.t = "str"
        code == IF Cardinality(volunteer_ids) < 2 \/ Cardinality(volunteer_ids) > 10
                THEN "INVALID_COMPARISON_COUNT"
                ELSE IF ~(volunteer_ids \subseteq DOMAIN Volunteers)
                THEN "VOLUNTEERS_NOT_FOUND"
                ELSE "OK"
        report == [v \in volunteer_ids |->
                      analyzeTrend(ByMonth({e \in evaluations :
                                               /\ e.volunteer_id = v
                                               /\ e.evaluation_year = year
                                               /\ e.status = "approved"}, asString))]
    IN  /\ response' = Reply("comparison", code, user, 0,
                             IF code = "OK" THEN report ELSE Null)
        /\ UNCHANGED <<evaluation_criteria, evaluations, evaluation_details,
                       freeze_records, alert_records, cumulative_notes, requests,
                       next_id>>

-----------------------------------------------------------------------------
(* Initial state: the store after installation, no request in flight *)

\* the requests that can be in flight at once
Slots == 1..MaxRequests

\* a slot with no request in it
Idle == [pc |-> "idle"]

Init ==
    /\ \E asString \in BOOLEAN : evaluation_criteria = CriteriaTable(asString)
    /\ evaluations = {}
    /\ evaluation_details = [i \in {} |-> <<>>]
    /\ freeze_records = <<>>
    /\ alert_records = {}
    /\ cumulative_notes = <<>>
    /\ next_id = [evaluations |-> 1, alert_records |-> 1]
    /\ requests = [r \in Slots |-> Idle]
    /\ response = Reply("none", "OK", "admin", 0, Null)

-----------------------------------------------------------------------------
(* Request bodies the specifications draw from *)

\* one element of criteria_scores
Entry(criteria_id, score_value, boolean_value, choice_value, text_value) ==
    [criteria_id |-> criteria_id, score_value |-> score_value,
     boolean_value |-> boolean_value, choice_value |-> choice_value,
     text_value |-> text_value]

NumericEntry(criteria_id, score_value) ==
    Entry(criteria_id, score_value, Undefined, Undefined, Undefined)

\* entries combined freely into arrays of up to MaxScores elements
CoreEntries ==
    {NumericEntry("quality", Num(120)),
     NumericEntry("quality", Num(40)),
     Entry("attend", Undefined, Bool(TRUE), Undefined, Undefined),
     Entry("interact", Undefined, Undefined, Str(<<"g", "o", "o", "d">>), Undefined),
     NumericEntry("ghost", Num(50))}

\* entries submitted alone: every kind of raw input and of criterion
SingleEntries ==
    {NumericEntry("quality", sv) :
        sv \in {Num(75), Num(0 - 30), Str(<<"1", "2">>), Str(<<"-", "3">>),
                Str(<<"7", ".", "5", "x">>), Str(<<"a", "b">>), Str(<<>>),
                Null, Undefined, Bool(TRUE)}}
    \cup {Entry("attend", Undefined, bv, Undefined, Undefined) :
             bv \in {Bool(FALSE), Undefined, Str(<<"t", "r", "u", "e">>)}}
    \cup {Entry("interact", Undefined, Undefined, cv, Undefined) :
             cv \in {Str(<<"t", "o", "p">>), Str(<<"l", "o", "w">>), Str(<<"n", "o">>),
                     Str(<<"o", "v", "e", "r">>), Str(<<>>), Undefined}}
    \cup {Entry("remark", Undefined, Undefined, Undefined, Str(<<"o", "k">>)),
          Entry("remark", Num(50), Undefined, Undefined, Str(<<"o", "k">>))}
    \cup {NumericEntry(c, Num(50)) : c \in {"extra", "retired", "lead"}}

\* sequences over S of length at most n
RECURSIVE SeqsUpTo(_, _)
SeqsUpTo(S, n) ==
    IF n = 0 THEN {<<>>}
    ELSE LET shorter == SeqsUpTo(S, n - 1)
         IN  shorter \cup {Append(q, x) : q \in shorter, x \in S}

ScoreArrays == SeqsUpTo(CoreEntries, MaxScores) \cup {<<e>> : e \in SingleEntries}

CreateBody(volunteer_id, month, year, criteria_scores, is_frozen, freeze) ==
    [volunteer_id |-> volunteer_id, evaluation_month |-> month,
     evaluation_year |-> year, criteria_scores |-> criteria_scores,
     human_note |-> Undefined, is_frozen |-> is_frozen,
     freeze_reason |-> freeze, freeze_start_date |-> freeze,
     freeze_end_date |-> freeze]

UpdateBody(criteria_scores, human_note, is_frozen, freeze) ==
    [criteria_scores |-> criteria_scores, human_note |-> human_note,
     is_frozen |-> is_frozen, freeze_reason |-> freeze,
     freeze_start_date |-> freeze, freeze_end_date |-> freeze]

EvaluationIds == {e.id : e \in evaluations}

-----------------------------------------------------------------------------
(* SpecScoring: one evaluation, created once and rescored at will, with      *)
(* every kind of submitted score                                           *)

ScoringCreate ==
    \E v \in DOMAIN Volunteers, scores \in ScoreArrays :
        /\ evaluations = {}
        /\ CreateEvaluation("admin",
               CreateBody(v, 1, ThisYear, scores, FALSE, Undefined), NoFailure)

ScoringUpdate ==
    \E id \in EvaluationIds, scores \in ScoreArrays :
        UpdateEvaluation("admin", id,
            UpdateBody(Arr(scores), Undefined, Undefined, Undefined), NoFailure)

NextScoring == ScoringCreate \/ ScoringUpdate

SpecScoring == Init /\ [][NextScoring]_vars

-----------------------------------------------------------------------------
(* Spec: create, update and delete requests, one at a time, for a few      *)
(* periods, with and without a freeze.  SpecFailures: the same create and  *)
(* update requests, any query of their transaction failing.                *)

TwoScores == <<NumericEntry("quality", Num(120)),
               Entry("attend", Undefined, Bool(TRUE), Undefined, Undefined)>>

OneScore == <<Entry("interact", Undefined, Undefined, Str(<<"g", "o", "o", "d">>), Undefined)>>

SomeText == Str(<<"x">>)

\* a create body is not frozen, frozen with its three freeze fields, or
\* frozen without them
CreateBodies ==
    {CreateBody("v1", m, ThisYear, TwoScores, frozen, freeze) :
        m \in 1..MaxMonths, frozen \in BOOLEAN, freeze \in {Undefined, SomeText}}
    \ {CreateBody("v1", m, ThisYear, TwoScores, FALSE, SomeText) : m \in 1..MaxMonths}

UpdateBodies ==
    {UpdateBody(Arr(OneScore), Undefined, Undefined, Undefined),
     UpdateBody(Undefined, SomeText, Undefined, Undefined)}

\* a create that reaches its INSERT needs a free evaluation id
Create ==
    \E body \in CreateBodies :
        /\ \/ next_id.evaluations <= MaxIds
           \/ CreateChecks(evaluations, freeze_records, body) # "OK"
        /\ CreateEvaluation("admin", body, NoFailure)

Update ==
    \E id \in EvaluationIds, body \in UpdateBodies :
        UpdateEvaluation("admin", id, body, NoFailure)

Delete ==
    \E id \in EvaluationIds : DeleteEvaluation("admin", id)

Next == Create \/ Update \/ Delete

Spec == Init /\ [][Next]_vars

\* the create bodies of the failing requests: one or two scores
FailingBodies ==
    CreateBodies \cup {CreateBody("v1", m, ThisYear, OneScore, FALSE, Undefined) :
                          m \in 1..MaxMonths}

FailingCreate ==
    \E body \in FailingBodies, fail \in FailPoints :
        CreateEvaluation("admin", body, fail)

FailingUpdate ==
    \E id \in EvaluationIds, body \in UpdateBodies, fail \in FailPoints :
        UpdateEvaluation("admin", id, body, fail)

NextFailures == FailingCreate \/ FailingUpdate

SpecFailures == Init /\ [][NextFailures]_vars

-----------------------------------------------------------------------------
(* SpecConcurrent: create requests in flight together.  Each await of the  *)
(* handler is a step: the volunteer query, the existing-evaluation query,  *)
(* the freeze count query, and the transaction, which the database runs    *)
(* as one unit.                                                            *)

\* the request enters the handler and its volunteer query answers
BeginCreate(r, user, body) ==
    /\ requests[r].pc = "idle"
    /\ IF VolunteerCheck(body) # "OK"
       THEN /\ response' = Reply("create", VolunteerCheck(body), user, 0, body)
            /\ UNCHANGED requests
       ELSE /\ requests' = [requests EXCEPT
                               ![r] = [pc |-> "existing", user |-> user, body |-> body]]
            /\ UNCHANGED response
    /\ UNCHANGED <<evaluation_criteria, evaluations, evaluation_details, freeze_records,
                   alert_records, cumulative_notes, next_id>>

\* the existing-evaluation query answers; incomplete freeze data is
\* rejected without a further query
CheckExisting(r) ==
    /\ requests[r].pc = "existing"
    /\ LET body == requests[r].body
           code == IF ExistingCheck(evaluations, body) # "OK"
                   THEN ExistingCheck(evaluations, body)
                   ELSE FreezeDataCheck(body)
       IN  IF code # "OK"
           THEN /\ response' = Reply("create", code, requests[r].user, 0, body)
                /\ requests' = [requests EXCEPT ![r] = Idle]
           ELSE /\ requests' = [requests EXCEPT
                       ![r].pc = IF body.is_frozen THEN "freeze" ELSE "transaction"]
                /\ UNCHANGED response
    /\ UNCHANGED <<evaluation_criteria, evaluations, evaluation_details, freeze_records,
                   alert_records, cumulative_notes, next_id>>

\* the freeze count query answers
CheckFreeze(r) ==
    /\ requests[r].pc = "freeze"
    /\ LET body == requests[r].body
           code == FreezeLimitCheck(freeze_records, body)
       IN  IF code # "OK"
           THEN /\ response' = Reply("create", code, requests[r].user, 0, body)
                /\ requests' = [requests EXCEPT ![r] = Idle]
           ELSE /\ requests' = [requests EXCEPT ![r].pc = "transaction"]
                /\ UNCHANGED response
    /\ UNCHANGED <<evaluation_criteria, evaluations, evaluation_details, freeze_records,
                   alert_records, cumulative_notes, next_id>>

\* the transaction runs and the response is sent
RunCreateTransaction(r, fail) ==
    /\ requests[r].pc = "transaction"
    /\ LET body == requests[r].body
           run == CreateCallback(Store, evaluation_criteria, next_id.evaluations,
                                 requests[r].user, body, fail)
           after == Transaction(Store, run)
       IN  /\ WriteStore(after)
           /\ next_id' = [next_id EXCEPT
                             !.evaluations = NextEvaluationId(after.evaluations)]
           /\ response' = Reply("create",
                                IF run.threw THEN "CREATE_EVALUATION_ERROR" ELSE "CREATED",
                                requests[r].user, next_id.evaluations, body)
    /\ requests' = [requests EXCEPT ![r] = Idle]
    /\ UNCHANGED <<evaluation_criteria, alert_records, cumulative_notes>>

ConcurrentBodies ==
    {CreateBody("v1", m, ThisYear, OneScore, frozen, IF frozen THEN SomeText ELSE Undefined) :
        m \in 1..MaxMonths, frozen \in BOOLEAN}

ConcurrentBegin ==
    \E r \in Slots, body \in ConcurrentBodies :
        /\ next_id.evaluations <= MaxIds
        /\ BeginCreate(r, "admin", body)

ConcurrentCheckExisting == \E r \in Slots : CheckExisting(r)

ConcurrentCheckFreeze == \E r \in Slots : CheckFreeze(r)

ConcurrentTransaction == \E r \in Slots : RunCreateTransaction(r, NoFailure)

-----------------------------------------------------------------------------
(* SpecAlerts: alert requests, one at a time, over an evaluation history   *)
(* that does not change.  The history is what create and approve requests  *)
(* leave: each volunteer has a number of approved evaluations, for the     *)
(* months 1, 2, ... of this year, all weak and with a low interaction      *)
(* score.                                                                  *)

WeakScores == <<NumericEntry("quality", Num(30)),
                Entry("interact", Undefined, Undefined, Str(<<"l", "o", "w">>), Undefined)>>

\* the store after a create request and an approve request for body
Evaluated(work, criteria, id, body) ==
    LET created == Transaction(work,
                       CreateCallback(work, criteria, id, "admin", body, NoFailure))
    IN  [created EXCEPT !.evaluations = SetApproved(@, id)]

\* the store after the create and approve requests for the bodies, in
\* order (w and b name the store and the bodies once they are computed)
RECURSIVE HistoryOf(_, _, _, _)
HistoryOf(work, criteria, bodies, id) ==
    CHOOSE history \in
        {IF b = <<>> THEN w
         ELSE HistoryOf(Evaluated(w, criteria, id, Head(b)), criteria, Tail(b), id + 1) :
            w \in {work}, b \in {bodies}} : TRUE

RECURSIVE Concat(_)
Concat(qs) == IF qs = <<>> THEN <<>> ELSE Head(qs) \o Concat(Tail(qs))

\* plan[v] evaluations for volunteer v
PlanBodies(plan) ==
    LET vs == InOrder(DOMAIN Volunteers)
    IN  Concat([k \in 1..Len(vs) |->
                   [m \in 1..plan[vs[k]] |->
                       CreateBody(vs[k], m, ThisYear, WeakScores, FALSE, Undefined)]])

\* the first volunteer has any number of evaluations up to HistoryMonths,
\* the second none or all of them
HistoryPlans ==
    {plan \in [DOMAIN Volunteers -> 0..HistoryMonths] : plan["v2"] \in {0, HistoryMonths}}

InitAlerts ==
    \E asString \in BOOLEAN, plan \in HistoryPlans :
        \E criteria \in {CriteriaTable(asString)}, bodies \in {PlanBodies(plan)} :
        \E history \in {HistoryOf([evaluations |-> {},
                                   evaluation_details |-> [i \in {} |-> <<>>],
                                   freeze_records |-> <<>>],
                                  criteria, bodies, 1)} :
            /\ evaluation_criteria = criteria
            /\ evaluations = history.evaluations
            /\ evaluation_details = history.evaluation_details
            /\ freeze_records = history.freeze_records
            /\ alert_records = {}
            /\ cumulative_notes = <<>>
            /\ next_id = [evaluations |-> Len(bodies) + 1, alert_records |-> 1]
            /\ requests = [r \in Slots |-> Idle]
            /\ response = Reply("none", "OK", "admin", 0, Null)

AlertBody(volunteer_id, alert_type) ==
    [volunteer_id |-> volunteer_id, alert_type |-> alert_type, severity |-> "low",
     alert_message |-> Str(<<"manual">>)]

AlertIds == {a.id : a \in alert_records}

ManualAlert ==
    \E type \in {"weak_performance", "no_interaction"} :
        /\ next_id.alert_records <= MaxAlerts
        /\ CreateAlert("admin", AlertBody("v1", type))

\* a check runs while the alerts it inserts fit the bound on alert ids
AutomaticCheck ==
    /\ CheckAutomatic("admin")
    /\ next_id'.alert_records <= MaxAlerts + 1

Resolve ==
    \E id \in AlertIds : ResolveAlert("admin", id, Undefined, NoFailure)

DeleteAnAlert ==
    \E id \in AlertIds : DeleteAlert("admin", id)

NextAlerts == ManualAlert \/ AutomaticCheck \/ Resolve \/ DeleteAnAlert

SpecAlerts == InitAlerts /\ [][NextAlerts]_vars

-----------------------------------------------------------------------------
(* SpecRules: automatic checks and resolutions over histories of three     *)
(* kinds: approved evaluations of this year, approved evaluations of last  *)
(* year, and evaluations of this year that were never approved.            *)

HistoryKinds == {"recent", "old", "draft"}

\* the store after a create request for body
Drafted(work, criteria, id, body) ==
    Transaction(work, CreateCallback(work, criteria, id, "admin", body, NoFailure))

\* the store after create requests for the bodies, each followed by an
\* approve request when approve is set
RECURSIVE RuleHistoryOf(_, _, _, _, _)
RuleHistoryOf(work, criteria, bodies, id, approve) ==
    CHOOSE history \in
        {IF b = <<>> THEN w
         ELSE RuleHistoryOf(IF approve THEN Evaluated(w, criteria, id, Head(b))
                                       ELSE Drafted(w, criteria, id, Head(b)),
                            criteria, Tail(b), id + 1, approve) :
            w \in {work}, b \in {bodies}} : TRUE

\* plan[v] evaluations for volunteer v, for the months 1, 2, ... of year
RuleBodies(plan, year) ==
    LET vs == InOrder(DOMAIN Volunteers)
    IN  Concat([k \in 1..Len(vs) |->
                   [m \in 1..plan[vs[k]] |->
                       CreateBody(vs[k], m, year, WeakScores, FALSE, Undefined)]])

InitRules ==
    \E asString \in BOOLEAN, plan \in HistoryPlans, kind \in HistoryKinds :
        \E criteria \in {CriteriaTable(asString)},
           bodies \in {RuleBodies(plan, IF kind = "old" THEN ThisYear - 1 ELSE ThisYear)} :
        \E history \in {RuleHistoryOf([evaluations |-> {},
                                       evaluation_details |-> [i \in {} |-> <<>>],
                                       freeze_records |-> <<>>],
                                      criteria, bodies, 1, kind # "draft")} :
            /\ evaluation_criteria = criteria
            /\ evaluations = history.evaluations
            /\ evaluation_details = history.evaluation_details
            /\ freeze_records = history.freeze_records
            /\ alert_records = {}
            /\ cumulative_notes = <<>>
            /\ next_id = [evaluations |-> Len(bodies) + 1, alert_records |-> 1]
            /\ requests = [r \in Slots |-> Idle]
            /\ response = Reply("none", "OK", "admin", 0, Null)

RulesCheck ==
    /\ CheckAutomatic("admin")
    /\ next_id'.alert_records <= MaxAlerts + 3

RulesResolve ==
    \E id \in AlertIds : ResolveAlert("admin", id, Undefined, NoFailure)

NextRules == RulesCheck \/ RulesResolve

SpecRules == InitRules /\ [][NextRules]_vars

-----------------------------------------------------------------------------
(* SpecConcurrentChecks: automatic checks in flight together.  Every await *)
(* of the handler is a step: each of the two queries, each INSERT of the   *)
(* two loops, and the reply.                                                *)

\* the rows weakPerformanceQuery returns now
WeakRows ==
    InOrder({[volunteer_id |-> v,
              months |-> Cardinality(WeakEvaluations(evaluations, v))] :
                v \in WeakPerformanceResult(evaluations, alert_records)})

\* the rows noInteractionQuery returns now
SilentRows ==
    InOrder({[volunteer_id |-> v,
              months |-> Cardinality(NoInteractionRows(evaluations, evaluation_details,
                                                       evaluation_criteria, v))] :
                v \in NoInteractionResult(evaluations, evaluation_details,
                                          evaluation_criteria, alert_records)})

\* requireAdmin passes and weakPerformanceQuery answers
BeginCheck(r, user) ==
    /\ requests[r].pc = "idle"
    /\ IF Users[user].role # "admin"
       THEN /\ response' = Reply("check_automatic", "ADMIN_REQUIRED", user, 0, Null)
            /\ UNCHANGED requests
       ELSE /\ requests' = [requests EXCEPT
                   ![r] = [pc |-> "weak", user |-> user, rows |-> WeakRows, count |-> 0]]
            /\ UNCHANGED response
    /\ UNCHANGED <<evaluation_criteria, evaluations, evaluation_details, freeze_records,
                   alert_records, cumulative_notes, next_id>>

\* one INSERT of either loop, for the next row of the query result
InsertNext(r) ==
    /\ requests[r].pc \in {"weak", "silent"}
    /\ requests[r].rows # <<>>
    /\ LET weak == requests[r].pc = "weak"
           after == InsertAutomatic(alert_records, next_id.alert_records,
                        <<Head(requests[r].rows)>>,
                        IF weak THEN "weak_performance" ELSE "no_interaction",
                        IF weak THEN "high" ELSE "medium",
                        IF weak THEN "consecutive_weak_performance"
                                ELSE "no_group_interaction",
                        IF weak THEN 60 ELSE 3)
       IN  /\ alert_records' = after.alerts
           /\ next_id' = [next_id EXCEPT !.alert_records = after.id]
    /\ requests' = [requests EXCEPT ![r].rows = Tail(@), ![r].count = @ + 1]
    /\ UNCHANGED <<evaluation_criteria, evaluations, evaluation_details, freeze_records,
                   cumulative_notes, response>>

\* the first loop is over and noInteractionQuery answers
QueryInteraction(r) ==
    /\ requests[r].pc = "weak"
    /\ requests[r].rows = <<>>
    /\ requests' = [requests EXCEPT ![r].pc = "silent", ![r].rows = SilentRows]
    /\ UNCHANGED <<evaluation_criteria, evaluations, evaluation_details, freeze_records,
                   alert_records, cumulative_notes, next_id, response>>

\* the second loop is over and the reply is sent
FinishCheck(r) ==
    /\ requests[r].pc = "silent"
    /\ requests[r].rows = <<>>
    /\ response' = Reply("check_automatic", "OK", requests[r].user, 0,
                         Num(requests[r].count))
    /\ requests' = [requests EXCEPT ![r] = Idle]
    /\ UNCHANGED <<evaluation_criteria, evaluations, evaluation_details, freeze_records,
                   alert_records, cumulative_notes, next_id>>

ChecksBegin ==
    \E r \in Slots :
        /\ next_id.alert_records <= MaxAlerts
        /\ BeginCheck(r, "admin")

ChecksInsert == \E r \in Slots : InsertNext(r)

ChecksQuery == \E r \in Slots : QueryInteraction(r)

ChecksFinish == \E r \in Slots : FinishCheck(r)

NextConcurrentChecks == ChecksBegin \/ ChecksInsert \/ ChecksQuery \/ ChecksFinish

SpecConcurrentChecks == InitAlerts /\ [][NextConcurrentChecks]_vars

-----------------------------------------------------------------------------
(* SpecResolve: alerts are raised and resolved, one request at a time, and *)
(* either query of a resolve request may fail.                             *)

ResolveFailPoints == {NoFailure, [at |-> "update_alert", k |-> 0], [at |-> "insert_note", k |-> 0]}

FailingResolve ==
    \E id \in AlertIds, notes \in {Undefined, SomeText}, fail \in ResolveFailPoints :
        ResolveAlert("eval1", id, notes, fail)

NextResolve == ManualAlert \/ AutomaticCheck \/ FailingResolve

SpecResolve == InitAlerts /\ [][NextResolve]_vars

-----------------------------------------------------------------------------
(* SpecManual: manual alert requests with well-formed and malformed bodies, *)
(* by the admin and by an evaluator, between automatic checks and          *)
(* resolutions, over the histories of SpecAlerts.                          *)

\* request bodies of POST /api/alerts: a known or unknown volunteer, a type
\* and a severity in or out of their enumerations, a message or none
ManualBodies ==
    {[volunteer_id |-> v, alert_type |-> type, severity |-> severity,
      alert_message |-> message] :
        v \in {"v1", "v9"},
        type \in {"weak_performance", "achievement", "praise"},
        severity \in {"high", "urgent"},
        message \in {Str(<<"manual">>), Str(<<>>)}}

\* a request that reaches its INSERT needs a free alert id
ManualRequest ==
    \E user \in {"admin", "eval1"}, body \in ManualBodies :
        /\ next_id.alert_records <= MaxAlerts
        /\ CreateAlert(user, body)

ManualCheck ==
    /\ CheckAutomatic("admin")
    /\ next_id'.alert_records <= MaxAlerts + 1

ManualResolve ==
    \E id \in AlertIds : ResolveAlert("admin", id, Undefined, NoFailure)

NextManual == ManualRequest \/ ManualCheck \/ ManualResolve

SpecManual == InitAlerts /\ [][NextManual]_vars

-----------------------------------------------------------------------------
(* SpecAccess: create, update, approve and delete requests, one at a time, *)
(* by the admin, by the evaluator who creates the evaluations and by       *)
(* another evaluator; the create bodies carry any part of the freeze data. *)

\* create bodies for one period: not frozen, or frozen with each of the
\* three freeze fields present or missing
AccessCreateBodies ==
    {CreateBody("v1", 1, ThisYear, TwoScores, FALSE, Undefined)}
    \cup {[CreateBody("v1", 1, ThisYear, TwoScores, TRUE, SomeText) EXCEPT
              !.freeze_reason = reason, !.freeze_start_date = start,
              !.freeze_end_date = end] :
             reason \in {Undefined, SomeText}, start \in {Undefined, SomeText},
             end \in {Undefined, SomeText}}

\* update bodies: new scores, a new note, or is_frozen alone
AccessUpdateBodies ==
    {UpdateBody(Arr(OneScore), Undefined, Undefined, Undefined),
     UpdateBody(Undefined, SomeText, Undefined, Undefined),
     UpdateBody(Undefined, Undefined, Bool(TRUE), Undefined)}

AccessCreate ==
    \E body \in AccessCreateBodies :
        /\ \/ next_id.evaluations <= MaxIds
           \/ CreateChecks(evaluations, freeze_records, body) # "OK"
        /\ CreateEvaluation("eval1", body, NoFailure)

AccessUpdate ==
    \E user \in DOMAIN Users, id \in EvaluationIds, body \in AccessUpdateBodies :
        UpdateEvaluation(user, id, body, NoFailure)

AccessApprove ==
    \E user \in DOMAIN Users, id \in EvaluationIds : ApproveEvaluation(user, id)

AccessDelete ==
    \E id \in EvaluationIds : DeleteEvaluation("admin", id)

NextAccess == AccessCreate \/ AccessUpdate \/ AccessApprove \/ AccessDelete

SpecAccess == Init /\ [][NextAccess]_vars

-----------------------------------------------------------------------------
(* SpecTrend: comparison reports over every history of up to MaxTrend      *)
(* approved evaluations of one volunteer, one per month, each scored 50,   *)
(* 55 or 60 percent; the other volunteer has no evaluation.                *)

\* score_value of the quality criterion in tenths: 5.0, 5.5 and 6.0 of 10
TrendScores == {50, 55, 60}

TrendBodies(scores) ==
    [m \in 1..Len(scores) |->
        CreateBody("v1", m, ThisYear, <<NumericEntry("quality", Num(scores[m]))>>,
                   FALSE, Undefined)]

InitTrend ==
    \E asString \in BOOLEAN, scores \in SeqsUpTo(TrendScores, MaxTrend) :
        \E criteria \in {CriteriaTable(asString)}, bodies \in {TrendBodies(scores)} :
        \E history \in {HistoryOf([evaluations |-> {},
                                   evaluation_details |-> [i \in {} |-> <<>>],
                                   freeze_records |-> <<>>],
                                  criteria, bodies, 1)} :
            /\ evaluation_criteria = criteria
            /\ evaluations = history.evaluations
            /\ evaluation_details = history.evaluation_details
            /\ freeze_records = history.freeze_records
            /\ alert_records = {}
            /\ cumulative_notes = <<>>
            /\ next_id = [evaluations |-> Len(bodies) + 1, alert_records |-> 1]
            /\ requests = [r \in Slots |-> Idle]
            /\ response = Reply("none", "OK", "admin", 0, Null)

TrendReport ==
    \E user \in {"admin", "eval1"}, volunteer_ids \in {{"v1", "v2"}, {"v1"}} :
        ComparisonReport(user, volunteer_ids, ThisYear)

NextTrend == TrendReport

SpecTrend == InitTrend /\ [][NextTrend]_vars

-----------------------------------------------------------------------------
(* SpecTotals: evaluations are created, rescored and deleted, and criteria *)
(* are deleted with and without force, one request at a time.  The scores  *)
(* are for criteria of weight 2, 1 and 1.5.                                *)

\* criteria_scores of the update requests: none, an unknown criterion only,
\* one score, two scores
TotalsArrays ==
    {<<>>, <<NumericEntry("ghost", Num(50))>>, OneScore, TwoScores}

TotalsCreate ==
    \E scores \in {OneScore, TwoScores} :
        LET body == CreateBody("v1", 1, ThisYear, scores, FALSE, Undefined)
        IN  /\ \/ next_id.evaluations <= MaxIds
               \/ CreateChecks(evaluations, freeze_records, body) # "OK"
            /\ CreateEvaluation("admin", body, NoFailure)

TotalsUpdate ==
    \E id \in EvaluationIds, scores \in TotalsArrays :
        UpdateEvaluation("admin", id,
            UpdateBody(Arr(scores), Undefined, Undefined, Undefined), NoFailure)

TotalsDelete ==
    \E id \in EvaluationIds : DeleteEvaluation("admin", id)

TotalsDeleteCriterion ==
    \E id \in {"quality", "interact"}, force \in {Undefined, Str(<<"t", "r", "u", "e">>)} :
        DeleteCriterion("admin", id, force)

NextTotals == TotalsCreate \/ TotalsUpdate \/ TotalsDelete \/ TotalsDeleteCriterion

SpecTotals == Init /\ [][NextTotals]_vars

-----------------------------------------------------------------------------
(* SpecConcurrentUpdates: update and approve requests for one evaluation   *)
(* in flight together.  Each await of a handler is a step: the query that  *)
(* reads the evaluation, with the checks made on its answer, and then the  *)
(* transaction of the update, or the UPDATE of the approve, with the reply. *)

\* the evaluation query of the update answers and the checks are made on it
BeginUpdate(r, user, id, body) ==
    /\ requests[r].pc = "idle"
    /\ LET check == UpdateChecks(evaluations, id, user)
       IN  IF check # "OK"
           THEN /\ response' = Reply("update", check, user, id, body)
                /\ UNCHANGED requests
           ELSE /\ requests' = [requests EXCEPT ![r] =
                       [pc |-> "update_transaction", user |-> user, id |-> id,
                        body |-> body,
                        oldEvaluation |-> CHOOSE e \in EvaluationById(evaluations, id) : TRUE]]
                /\ UNCHANGED response
    /\ UNCHANGED <<evaluation_criteria, evaluations, evaluation_details, freeze_records,
                   alert_records, cumulative_notes, next_id>>

\* the transaction of the update runs on the store as it is now, for the
\* evaluation read before, and the reply is sent
RunUpdateTransaction(r) ==
    /\ requests[r].pc = "update_transaction"
    /\ LET run == UpdateCallback(Store, evaluation_criteria, requests[r].oldEvaluation,
                                 requests[r].body, NoFailure)
       IN  /\ WriteStore(Transaction(Store, run))
           /\ response' = Reply("update",
                                IF run.threw THEN "UPDATE_EVALUATION_ERROR" ELSE "OK",
                                requests[r].user, requests[r].id, requests[r].body)
    /\ requests' = [requests EXCEPT ![r] = Idle]
    /\ UNCHANGED <<evaluation_criteria, alert_records, cumulative_notes, next_id>>

\* the evaluation query of the approve answers and the checks are made on it
BeginApprove(r, user, id) ==
    /\ requests[r].pc = "idle"
    /\ LET check == ApproveChecks(evaluations, id, user)
       IN  IF check # "OK"
           THEN /\ response' = Reply("approve", check, user, id, Null)
                /\ UNCHANGED requests
           ELSE /\ requests' = [requests EXCEPT ![r] =
                       [pc |-> "approve_update", user |-> user, id |-> id]]
                /\ UNCHANGED response
    /\ UNCHANGED <<evaluation_criteria, evaluations, evaluation_details, freeze_records,
                   alert_records, cumulative_notes, next_id>>

\* the UPDATE of the approve runs and the reply is sent
RunApprove(r) ==
    /\ requests[r].pc = "approve_update"
    /\ evaluations' = SetApproved(evaluations, requests[r].id)
    /\ response' = Reply("approve", "OK", requests[r].user, requests[r].id, Null)
    /\ requests' = [requests EXCEPT ![r] = Idle]
    /\ UNCHANGED <<evaluation_criteria, evaluation_details, freeze_records,
                   alert_records, cumulative_notes, next_id>>

\* the behaviours start with one draft evaluation created by eval1
InitUpdates ==
    \E asString \in BOOLEAN :
        \E criteria \in {CriteriaTable(asString)},
           empty \in {[evaluations |-> {}, evaluation_details |-> [i \in {} |-> <<>>],
                       freeze_records |-> <<>>]} :
        \E created \in {Transaction(empty,
                            CreateCallback(empty, criteria, 1, "eval1",
                                CreateBody("v1", 1, ThisYear, TwoScores, FALSE, Undefined),
                                NoFailure))} :
            /\ evaluation_criteria = criteria
            /\ evaluations = created.evaluations
            /\ evaluation_details = created.evaluation_details
            /\ freeze_records = created.freeze_records
            /\ alert_records = {}
            /\ cumulative_notes = <<>>
            /\ next_id = [evaluations |-> 2, alert_records |-> 1]
            /\ requests = [r \in Slots |-> Idle]
            /\ response = Reply("none", "OK", "admin", 0, Null)

UpdatesBegin ==
    \E r \in Slots, id \in EvaluationIds, body \in UpdateBodies :
        BeginUpdate(r, "eval1", id, body)

UpdatesCommit == \E r \in Slots : RunUpdateTransaction(r)

ApprovesBegin ==
    \E r \in Slots, user \in {"admin", "eval1"}, id \in EvaluationIds :
        BeginApprove(r, user, id)

ApprovesCommit == \E r \in Slots : RunApprove(r)

NextConcurrentUpdates == UpdatesBegin \/ UpdatesCommit \/ ApprovesBegin \/ ApprovesCommit

SpecConcurrentUpdates == InitUpdates /\ [][NextConcurrentUpdates]_vars

-----------------------------------------------------------------------------
(* SpecConcurrentResolves: manual alerts are raised one request at a time  *)
(* and resolve requests are in flight together.  Each await of the resolve *)
(* handler is a step: the query that reads the alert, the UPDATE, and the  *)
(* INSERT of the note with the reply.                                      *)

\* the alert query answers and the checks are made on it
BeginResolve(r, user, id, resolution_notes) ==
    /\ requests[r].pc = "idle"
    /\ LET found == AlertById(alert_records, id)
           alert == CHOOSE a \in found : TRUE
           code == IF found = {} THEN "ALERT_NOT_FOUND"
                   ELSE IF alert.is_resolved THEN "ALERT_ALREADY_RESOLVED"
                   ELSE "OK"
       IN  IF code # "OK"
           THEN /\ response' = Reply("resolve_alert", code, user, id, resolution_notes)
                /\ UNCHANGED requests
           ELSE /\ requests' = [requests EXCEPT ![r] =
                       [pc |-> "resolve_update", user |-> user, id |-> id,
                        resolution_notes |-> resolution_notes, alert |-> alert]]
                /\ UNCHANGED response
    /\ UNCHANGED <<evaluation_criteria, evaluations, evaluation_details, freeze_records,
                   alert_records, cumulative_notes, next_id>>

\* UPDATE alert_records SET is_resolved = true, ... WHERE id = $3
UpdateResolved(r) ==
    /\ requests[r].pc = "resolve_update"
    /\ alert_records' = SetResolved(alert_records, requests[r].id, requests[r].user,
                                    requests[r].resolution_notes)
    /\ requests' = [requests EXCEPT ![r].pc = "resolve_note"]
    /\ UNCHANGED <<evaluation_criteria, evaluations, evaluation_details, freeze_records,
                   cumulative_notes, next_id, response>>

\* INSERT INTO cumulative_notes for the alert read at the start, and the reply
InsertNote(r) ==
    /\ requests[r].pc = "resolve_note"
    /\ cumulative_notes' = Append(cumulative_notes,
                                  ResolutionNote(requests[r].alert, requests[r].user,
                                                 requests[r].resolution_notes))
    /\ response' = Reply("resolve_alert", "OK", requests[r].user, requests[r].id,
                         requests[r].resolution_notes)
    /\ requests' = [requests EXCEPT ![r] = Idle]
    /\ UNCHANGED <<evaluation_criteria, evaluations, evaluation_details, freeze_records,
                   alert_records, next_id>>

ResolvesRaise ==
    /\ next_id.alert_records <= MaxAlerts
    /\ CreateAlert("admin", AlertBody("v1", "achievement"))

ResolvesBegin ==
    \E r \in Slots, user \in {"admin", "eval1"}, id \in AlertIds :
        BeginResolve(r, user, id, SomeText)

ResolvesUpdate == \E r \in Slots : UpdateResolved(r)

ResolvesNote == \E r \in Slots : InsertNote(r)

NextConcurrentResolves == ResolvesRaise \/ ResolvesBegin \/ ResolvesUpdate \/ ResolvesNote

SpecConcurrentResolves == Init /\ [][NextConcurrentResolves]_vars

NextConcurrent ==
    \/ ConcurrentBegin
    \/ ConcurrentCheckExisting
    \/ ConcurrentCheckFreeze
    \/ ConcurrentTransaction

SpecConcurrent == Init /\ [][NextConcurrent]_vars

-----------------------------------------------------------------------------
(* What a scoring request should have stored, stated from the contract *)

\* the last request was a create or an update that scored its criteria_scores
Scored ==
    \/ response.op = "create" /\ response.code = "CREATED"
    \/ /\ response.op = "update" /\ response.code = "OK"
       /\ response.body.criteria_scores # Undefined
       /\ response.body.criteria_scores.a # <<>>

\* the criteria_scores array of the last request
Submitted ==
    IF response.op = "create" THEN response.body.criteria_scores
    ELSE response.body.criteria_scores.a

\* the evaluation the last request wrote, and the rows stored for it
ScoredEvaluation == CHOOSE e \in evaluations : e.id = response.id
StoredDetails == DetailsOf(evaluation_details, response.id)

\* a submitted entry counts when its criterion exists, is active and applies
\* to the volunteer's role or to all roles
Counts(entry, role) ==
    /\ entry.criteria_id \in DOMAIN evaluation_criteria
    /\ evaluation_criteria[entry.criteria_id].is_active
    /\ evaluation_criteria[entry.criteria_id].applies_to_role \in {role, "all"}

Matched ==
    SelectSeq(Submitted,
        LAMBDA entry : Counts(entry, Volunteers[ScoredEvaluation.volunteer_id].role_type))

CriterionOf(entry) == evaluation_criteria[entry.criteria_id]

\* a stored score_value as a number, NULL counting as 0
Stored(score_value) == IF score_value = Null THEN 0 ELSE score_value.n

\* the weight of a criterion as a number, in tenths
WeightOf(criterion) == ParseFloat(criterion.weight).n

Clamp(x, lo, hi) == IF x < lo THEN lo ELSE IF x > hi THEN hi ELSE x

RECURSIVE Sum(_)
Sum(q) == IF q = <<>> THEN 0 ELSE Head(q) + Sum(Tail(q))

\* C1: after a create or an update that scored its criteria_scores, the score
\* stored for every entry of a numeric criterion lies in [0, max_score]: it is
\* the parsed number clamped to that range, and 0 when the raw score_value is
\* not a number or is missing.
NumericScoreClamped ==
    Scored =>
        /\ Len(StoredDetails) = Len(Matched)
        /\ \A i \in 1..Len(Matched) :
              CriterionOf(Matched[i]).data_type = "numeric" =>
                  LET parsed == ParseFloat(Matched[i].score_value)
                      max == CriterionOf(Matched[i]).max_score
                      score == Stored(StoredDetails[i].score_value)
                  IN  /\ 0 <= score /\ score <= max
                      /\ score = IF parsed.t = "num" THEN Clamp(parsed.n, 0, max) ELSE 0

\* a numeric criterion scored from a raw value above max_score, from a
\* negative one and from a string that is no number
NumericScoreClampedWitness ==
    /\ Scored
    /\ Len(StoredDetails) = 1 /\ Len(Matched) = 1
    /\ CriterionOf(Matched[1]).data_type = "numeric"
    /\ Matched[1].score_value \in {Str(<<"1", "2">>), Str(<<"-", "3">>), Str(<<"a", "b">>)}
    /\ response.op = "update"

\* C2: every stored percentage is totalScore / maxPossibleScore * 100 rounded
\* to two decimals (the nearest hundredth, so at most half a hundredth away)
\* when maxPossibleScore > 0, and 0 when maxPossibleScore is 0.
PercentageRounded ==
    \A e \in evaluations :
        IF e.max_possible_score > 0
        THEN LET exact == e.total_score * 10000
                 kept == e.percentage * e.max_possible_score
             IN  /\ 2 * (kept - exact) <= e.max_possible_score
                 /\ 2 * (exact - kept) < e.max_possible_score
        ELSE e.percentage = 0

\* an evaluation whose percentage had to be rounded up
PercentageRoundedWitness ==
    /\ Scored
    /\ ScoredEvaluation.max_possible_score > 0
    /\ ScoredEvaluation.percentage * ScoredEvaluation.max_possible_score
           > ScoredEvaluation.total_score * 10000

ExpectedDetails ==
    [i \in 1..Len(Matched) |->
        DetailRow(response.id, CriterionOf(Matched[i]), Matched[i],
                  FinalScore(CriterionOf(Matched[i]), Matched[i]))]

ExpectedTotal ==
    Sum([i \in 1..Len(Matched) |->
            WeightedScore(CriterionOf(Matched[i]),
                          FinalScore(CriterionOf(Matched[i]), Matched[i]))])

ExpectedMax ==
    Sum([i \in 1..Len(Matched) |-> MaxWeightedScore(CriterionOf(Matched[i]))])

Replaced ==
    /\ StoredDetails = ExpectedDetails
    /\ ScoredEvaluation.total_score = ExpectedTotal
    /\ ScoredEvaluation.max_possible_score = ExpectedMax
    /\ ScoredEvaluation.percentage = Percentage(ExpectedTotal, ExpectedMax)

\* C9 as stated: after every successful update whose body has a
\* criteria_scores array, the stored details and totals are those of that
\* array alone.
UpdateReplacesDetails ==
    (/\ response.op = "update" /\ response.code = "OK"
     /\ response.body.criteria_scores # Undefined) => Replaced

\* C9 as amended: after every successful update whose criteria_scores array
\* is not empty, the stored details and totals are those of that array alone.
UpdateReplacesDetailsNonEmpty ==
    (response.op = "update" /\ Scored) => Replaced

\* an update that replaced two stored rows by one
UpdateReplacesDetailsWitness ==
    /\ response.op = "update" /\ Scored
    /\ Len(Submitted) = 2 /\ Len(StoredDetails) = 1

-----------------------------------------------------------------------------
(* Freeze cap and atomicity of the sequential handlers *)

StoreUnchanged == UNCHANGED <<evaluations, evaluation_details, freeze_records>>

\* the active freeze records of a volunteer in a year
ActiveFreezes(volunteer_id, year) ==
    {i \in DOMAIN freeze_records : /\ freeze_records[i].volunteer_id = volunteer_id
                                   /\ freeze_records[i].freeze_year = year
                                   /\ freeze_records[i].is_active}

\* a create request with complete freeze data for a known volunteer and a
\* period that has no evaluation yet
WellFormedFreeze(body) ==
    /\ body.is_frozen
    /\ body.volunteer_id \in DOMAIN Volunteers
    /\ Truthy(body.freeze_reason) /\ Truthy(body.freeze_start_date)
    /\ Truthy(body.freeze_end_date)
    /\ ~\E e \in evaluations : /\ e.volunteer_id = body.volunteer_id
                               /\ e.evaluation_month = body.evaluation_month
                               /\ e.evaluation_year = body.evaluation_year

\* C7: a create with is_frozen = true for a volunteer who already has 2
\* active freeze records in the year is rejected and creates no evaluation,
\* no detail and no freeze record; the rejection of an otherwise acceptable
\* request is 409 FREEZE_LIMIT_EXCEEDED.
ThirdFreezeRejected ==
    [][(/\ response'.op = "create"
        /\ response'.body.is_frozen
        /\ Cardinality(ActiveFreezes(response'.body.volunteer_id,
                                     response'.body.evaluation_year)) >= 2)
       => /\ StoreUnchanged
          /\ response'.status \in {400, 404, 409}
          /\ WellFormedFreeze(response'.body) =>
                 response'.status = 409 /\ response'.code = "FREEZE_LIMIT_EXCEEDED"]_vars

\* a third freeze was asked for and refused
ThirdFreezeRejectedWitness ==
    /\ response.op = "create"
    /\ response.code = "FREEZE_LIMIT_EXCEEDED"
    /\ Cardinality(ActiveFreezes(response.body.volunteer_id,
                                 response.body.evaluation_year)) = 2

\* C10: a create or an update in which a query of the transaction fails
\* answers 500 and leaves evaluations, details and freeze records as they
\* were before the request.
FailedTransactionChangesNothing ==
    [][response'.status = 500 => StoreUnchanged]_vars

\* a rescoring update failed and the rows stored before it are still there
FailedTransactionChangesNothingWitness ==
    /\ response.op = "update"
    /\ response.code = "UPDATE_EVALUATION_ERROR"
    /\ response.body.criteria_scores # Undefined
    /\ Len(DetailsOf(evaluation_details, response.id)) = 2

-----------------------------------------------------------------------------
(* Uniqueness and the freeze cap with requests in flight together *)

\* C6: in every reachable state, whatever the interleaving of create
\* requests, a volunteer has at most 2 active freeze records in a year.
FreezeCapHolds ==
    \A v \in DOMAIN Volunteers :
        \A y \in {freeze_records[i].freeze_year : i \in DOMAIN freeze_records} :
            Cardinality(ActiveFreezes(v, y)) <= 2

\* C8: in every reachable state, whatever the interleaving of create
\* requests, no two evaluations have the same volunteer, month and year.
OneEvaluationPerPeriod ==
    \A e1, e2 \in evaluations :
        (/\ e1.volunteer_id = e2.volunteer_id
         /\ e1.evaluation_month = e2.evaluation_month
         /\ e1.evaluation_year = e2.evaluation_year) => e1 = e2

\* the unresolved alerts of one volunteer and one type
OpenAlerts(alerts, volunteer_id, alert_type) ==
    {a \in alerts : /\ a.volunteer_id = volunteer_id
                    /\ a.alert_type = alert_type
                    /\ a.is_resolved = FALSE}

\* C4: in every reachable state, after any sequence of manual alert
\* creations, automatic checks, resolutions and deletions, each
\* (volunteer_id, alert_type) pair has at most one unresolved alert.
OneOpenAlertPerType ==
    \A v \in DOMAIN Volunteers, t \in AlertTypes :
        Cardinality(OpenAlerts(alert_records, v, t)) <= 1

\* C5: an automatic check inserts at most one alert per (volunteer, rule),
\* and an automatic check that directly follows another one, with the
\* evaluation history unchanged and nothing resolved or deleted in between,
\* inserts no alert at all.
SecondCheckCreatesNothing ==
    [][response'.op = "check_automatic" =>
          /\ \A v \in DOMAIN Volunteers, t \in AlertTypes :
                Cardinality({a \in alert_records' \ alert_records :
                                a.volunteer_id = v /\ a.alert_type = t}) <= 1
          /\ (response.op = "check_automatic" /\ response.status = 200)
                => alert_records' = alert_records]_vars

\* a check has just found nothing to insert, although a volunteer has the
\* weak evaluations of rule A and the interaction rows of rule B: the alerts
\* an earlier check inserted for both rules are still open
SecondCheckCreatesNothingWitness ==
    /\ response.op = "check_automatic"
    /\ response.status = 200
    /\ response.body = Num(0)
    /\ \E v \in DOMAIN Volunteers :
          /\ Cardinality(WeakEvaluations(evaluations, v)) >= WeakMonths
          /\ Cardinality(NoInteractionRows(evaluations, evaluation_details,
                                           evaluation_criteria, v)) >= InteractionMonths
          /\ \E a \in OpenAlerts(alert_records, v, "weak_performance") :
                a.consecutive_months >= WeakMonths
          /\ \E a \in OpenAlerts(alert_records, v, "no_interaction") :
                a.consecutive_months >= InteractionMonths

-----------------------------------------------------------------------------
(* Resolution by data type, skipped entries and repeated submissions *)

\* the indexes of the matched entries that are the last one for their criterion
Winners ==
    {i \in 1..Len(Matched) :
        ~\E j \in (i + 1)..Len(Matched) : Matched[j].criteria_id = Matched[i].criteria_id}

\* the sum of f over a finite set of indexes
RECURSIVE SumOver(_, _)
SumOver(I, f) ==
    IF I = {} THEN 0
    ELSE LET i == CHOOSE j \in I : TRUE IN f[i] + SumOver(I \ {i}, f)

\* the resolved score and the two weighted terms of the i-th matched entry
ResolvedTerm(i) ==
    WeightedScore(CriterionOf(Matched[i]), FinalScore(CriterionOf(Matched[i]), Matched[i]))

MaxTerm(i) == MaxWeightedScore(CriterionOf(Matched[i]))

\* C11: after a create or an update that scored its criteria_scores, the
\* score stored for every entry, whatever the data type of its criterion and
\* whatever its choice table, lies in [0, max_score].
EveryScoreInRange ==
    Scored =>
        /\ Len(StoredDetails) = Len(Matched)
        /\ \A i \in 1..Len(Matched) :
              /\ 0 <= Stored(StoredDetails[i].score_value)
              /\ Stored(StoredDetails[i].score_value) <= CriterionOf(Matched[i]).max_score

\* C12: after a create or an update that scored its criteria_scores, the
\* score of every entry of a choice criterion that names a label is the table
\* value of the label when the table has it (0 included), and max_score * 0.8
\* exactly when the table does not have it.
ChoiceFromTable ==
    Scored =>
        /\ Len(StoredDetails) = Len(Matched)
        /\ \A i \in 1..Len(Matched) :
              (/\ CriterionOf(Matched[i]).data_type = "choice"
               /\ Truthy(Matched[i].choice_value)) =>
                  LET table == CriterionOf(Matched[i]).choices.o
                      label == Matched[i].choice_value.s
                  IN  Stored(StoredDetails[i].score_value) =
                          IF label \in DOMAIN table THEN table[label].n
                          ELSE (CriterionOf(Matched[i]).max_score * 8) \div 10

\* C13: a submitted entry whose criterion is unknown, inactive or not for the
\* volunteer's role is skipped: the request succeeds, the stored rows are
\* those of the other entries, in order, and the totals are the sums over
\* the other entries.
SkippedEntriesAddNothing ==
    Scored =>
        /\ response.status \in {200, 201}
        /\ [i \in 1..Len(StoredDetails) |-> StoredDetails[i].criteria_id]
               = [i \in 1..Len(Matched) |-> Matched[i].criteria_id]
        /\ ScoredEvaluation.total_score = ExpectedTotal
        /\ ScoredEvaluation.max_possible_score = ExpectedMax

\* a submission of two entries, one of them skipped
SkippedEntriesAddNothingWitness ==
    /\ Scored
    /\ Len(Submitted) = 2 /\ Len(StoredDetails) = 1
    /\ \E i \in 1..2 :
          ~Counts(Submitted[i], Volunteers[ScoredEvaluation.volunteer_id].role_type)

\* C14: an entry of a text criterion is not scored: totalScore,
\* maxPossibleScore and percentage are those of the submission without its
\* text entries, and the text_value is stored as submitted.
TextEntriesNotScored ==
    Scored =>
        LET scored == {i \in 1..Len(Matched) : CriterionOf(Matched[i]).data_type # "text"}
            total == SumOver(scored, [i \in scored |-> ResolvedTerm(i)])
            max == SumOver(scored, [i \in scored |-> MaxTerm(i)])
        IN  /\ Len(StoredDetails) = Len(Matched)
            /\ ScoredEvaluation.total_score = total
            /\ ScoredEvaluation.max_possible_score = max
            /\ ScoredEvaluation.percentage = Percentage(total, max)
            /\ \A i \in 1..Len(Matched) :
                  (/\ CriterionOf(Matched[i]).data_type = "text"
                   /\ Truthy(Matched[i].text_value)) =>
                      StoredDetails[i].text_value = Matched[i].text_value

\* C15: when a submission has several entries for one criterion, only the
\* last one counts: one row is stored for the criterion and it adds once to
\* totalScore and once to maxPossibleScore, with the last entry's score.
LastEntryWins ==
    Scored =>
        /\ Len(StoredDetails) = Cardinality(Winners)
        /\ ScoredEvaluation.total_score = SumOver(Winners, [i \in Winners |-> ResolvedTerm(i)])
        /\ ScoredEvaluation.max_possible_score = SumOver(Winners, [i \in Winners |-> MaxTerm(i)])

\* C16: an update that directly follows a successful update of the same
\* evaluation with the same criteria_scores leaves the stored details and
\* total_score, max_possible_score and percentage as the first left them.
SameUpdateTwice ==
    [][(/\ response.op = "update" /\ response.code = "OK"
        /\ response'.op = "update" /\ response'.code = "OK"
        /\ response'.id = response.id
        /\ response.body.criteria_scores # Undefined
        /\ response'.body.criteria_scores = response.body.criteria_scores)
       => UNCHANGED <<evaluations, evaluation_details>>]_vars

\* an update has replaced the rows of an earlier submission by its own, so
\* the same update sent again finds its own rows stored
SameUpdateTwiceWitness ==
    /\ response.op = "update" /\ response.code = "OK"
    /\ Scored
    /\ Len(StoredDetails) = 2
    /\ StoredDetails = ExpectedDetails

-----------------------------------------------------------------------------
(* The two rules of the automatic check, stated from the contract *)

\* how many months before the month of Today an evaluation lies
MonthsAgo(e) == (Today.year - e.evaluation_year) * 12 + Today.month - e.evaluation_month

\* the approved evaluations of a volunteer below 60 percent within the
\* trailing 12 months
WeakInTrailingYear(volunteer_id) ==
    {e \in evaluations : /\ e.volunteer_id = volunteer_id
                         /\ e.status = "approved"
                         /\ e.percentage < 6000
                         /\ MonthsAgo(e) >= 0 /\ MonthsAgo(e) <= 12}

\* the alerts of one type a step inserts for a volunteer
Inserted(volunteer_id, alert_type) ==
    {a \in alert_records' \ alert_records :
        a.volunteer_id = volunteer_id /\ a.alert_type = alert_type}

\* C17: an automatic check inserts a weak_performance alert of severity high
\* for a volunteer exactly when the volunteer has at least 3 approved
\* evaluations below 60 percent within the trailing 12 months and no
\* unresolved weak_performance alert; the alert's trigger_condition has months
\* = that count and threshold = 60.
WeakRuleExact ==
    [][(response'.op = "check_automatic" /\ response'.status = 200) =>
          \A v \in DOMAIN Volunteers :
              LET count == Cardinality(WeakInTrailingYear(v))
                  new == Inserted(v, "weak_performance")
              IN  IF count >= 3 /\ OpenAlerts(alert_records, v, "weak_performance") = {}
                  THEN /\ Cardinality(new) = 1
                       /\ \A a \in new : /\ a.severity = "high"
                                         /\ a.trigger_condition.o.months = count
                                         /\ a.trigger_condition.o.threshold = 60
                  ELSE new = {}]_vars

\* the evaluations of a volunteer with a qualifying detail: approved, not
\* frozen, within the trailing 2 months, the criterion interaction-labelled
\* and the score null or below 3
QualifyingMonths(volunteer_id) ==
    {e \in evaluations :
        /\ e.volunteer_id = volunteer_id
        /\ e.status = "approved"
        /\ e.is_frozen = FALSE
        /\ MonthsAgo(e) >= 0 /\ MonthsAgo(e) <= 2
        /\ \E i \in DOMAIN DetailsOf(evaluation_details, e.id) :
              LET ed == DetailsOf(evaluation_details, e.id)[i]
              IN  /\ ed.criteria_id \in DOMAIN evaluation_criteria
                  /\ \/ ILike(evaluation_criteria[ed.criteria_id].name_ar, "tafaol")
                     \/ ILike(evaluation_criteria[ed.criteria_id].name_ar, "group")
                  /\ Stored(ed.score_value) < 30 \/ ed.score_value = Null}

\* C18: an automatic check inserts a no_interaction alert of severity medium
\* for a volunteer exactly when at least 2 months qualify and the volunteer
\* has no unresolved no_interaction alert.
InteractionRuleExact ==
    [][(response'.op = "check_automatic" /\ response'.status = 200) =>
          \A v \in DOMAIN Volunteers :
              LET new == Inserted(v, "no_interaction")
              IN  IF /\ Cardinality(QualifyingMonths(v)) >= 2
                     /\ OpenAlerts(alert_records, v, "no_interaction") = {}
                  THEN Cardinality(new) = 1 /\ \A a \in new : a.severity = "medium"
                  ELSE new = {}]_vars

-----------------------------------------------------------------------------
(* Checks in flight together, and the note of a resolution *)

\* C19: whatever the interleaving of automatic checks, a volunteer never has
\* two unresolved rule-generated alerts of one type.
OneRuleAlertPerType ==
    \A v \in DOMAIN Volunteers, t \in {"weak_performance", "no_interaction"} :
        Cardinality({a \in OpenAlerts(alert_records, v, t) : a.consecutive_months > 0}) <= 1

\* the resolution notes appended for a volunteer
NotesFor(volunteer_id) ==
    {i \in DOMAIN cumulative_notes :
        /\ cumulative_notes[i].volunteer_id = volunteer_id
        /\ cumulative_notes[i].note_type = "improvement"}

\* C20: in every reachable state, also after a resolve request whose note
\* insert failed, every resolved alert names who resolved it and every
\* volunteer has a resolution note for each of their resolved alerts.
ResolvedAlertHasNote ==
    /\ \A a \in alert_records : a.is_resolved => a.resolved_by # Null
    /\ \A v \in DOMAIN Volunteers :
          Cardinality({a \in alert_records : a.volunteer_id = v /\ a.is_resolved})
              <= Cardinality(NotesFor(v))

-----------------------------------------------------------------------------
(* Manual alerts *)

\* C21: a manual alert request for an existing volunteer is accepted exactly
\* when alert_type and severity are in their enumerations and alert_message
\* is not empty, whatever the evaluation history and the alerts already
\* open; an accepted request inserts one new unresolved alert and a refused
\* one inserts nothing.
ManualAlertValidatedOnly ==
    [][(/\ response'.op = "create_alert"
        /\ response'.body.volunteer_id \in DOMAIN Volunteers)
       => LET body == response'.body
              wellFormed ==
                  /\ body.alert_type \in {"weak_performance", "no_interaction",
                                          "improvement_needed", "achievement"}
                  /\ body.severity \in {"low", "medium", "high"}
                  /\ body.alert_message.t = "str" /\ body.alert_message.s # <<>>
          IN  /\ response'.status = 201 <=> wellFormed
              /\ response'.status # 201 => /\ response'.status = 400
                                           /\ alert_records' = alert_records
              /\ response'.status = 201 =>
                     \E a \in alert_records' :
                         /\ a.id \notin {x.id : x \in alert_records}
                         /\ alert_records' = alert_records \cup {a}
                         /\ a.is_resolved = FALSE
                         /\ a.volunteer_id = body.volunteer_id
                         /\ a.alert_type = body.alert_type
                         /\ a.severity = body.severity]_vars

\* a manual alert was accepted for a volunteer with evaluations who has
\* another open alert of the same type
ManualAlertValidatedOnlyWitness ==
    /\ response.op = "create_alert"
    /\ response.status = 201
    /\ \E e \in evaluations : e.volunteer_id = response.body.volunteer_id
    /\ Cardinality({a \in alert_records : /\ a.volunteer_id = response.body.volunteer_id
                                          /\ a.alert_type = response.body.alert_type
                                          /\ a.is_resolved = FALSE}) = 2

-----------------------------------------------------------------------------
(* Who may update and approve, and what a refused request leaves behind *)

\* C22: an update by a caller who is neither admin nor the evaluator of the
\* evaluation is refused with 403 UNAUTHORIZED_EDIT; an update of an approved
\* evaluation by its own evaluator, who is not admin, is refused with 409
\* EVALUATION_APPROVED; both leave evaluations, details and freeze records
\* as they were.  An update by the admin is answered 200 on a draft and on
\* an approved evaluation, and the note it carries is stored.
UpdateAuthorization ==
    [][(/\ response'.op = "update"
        /\ \E x \in evaluations : x.id = response'.id)
       => LET e == CHOOSE x \in evaluations : x.id = response'.id
              caller == Users[response'.user]
              stranger == caller.role # "admin" /\ e.evaluator_id # caller.id
              closed == caller.role # "admin" /\ e.status = "approved"
          IN  /\ stranger => /\ response'.status = 403
                             /\ response'.code = "UNAUTHORIZED_EDIT"
                             /\ StoreUnchanged
              /\ (~stranger /\ closed) => /\ response'.status = 409
                                          /\ response'.code = "EVALUATION_APPROVED"
                                          /\ StoreUnchanged
              /\ caller.role = "admin" =>
                     /\ response'.status = 200
                     /\ response'.body.human_note # Undefined =>
                            \E x \in evaluations' :
                                /\ x.id = e.id
                                /\ x.status = e.status
                                /\ x.human_note = response'.body.human_note]_vars

\* the evaluator of an approved evaluation asked to update it and was refused
UpdateAuthorizationWitness ==
    /\ response.op = "update"
    /\ response.code = "EVALUATION_APPROVED"
    /\ \E e \in evaluations : /\ e.id = response.id
                               /\ e.status = "approved"
                               /\ e.evaluator_id = Users[response.user].id

\* C23: an approve is answered 200 exactly when the caller is the admin or
\* the evaluator of the evaluation and the evaluation is not approved yet;
\* a caller who is neither is refused with 403, an approve of an approved
\* evaluation with 409, both changing nothing; an approve answered 200
\* changes the status of that evaluation and no other column, no other row,
\* no detail and no freeze record.
ApproveAuthorization ==
    [][(/\ response'.op = "approve"
        /\ \E x \in evaluations : x.id = response'.id)
       => LET e == CHOOSE x \in evaluations : x.id = response'.id
              caller == Users[response'.user]
              stranger == caller.role # "admin" /\ e.evaluator_id # caller.id
          IN  /\ response'.status = 200 <=> (~stranger /\ e.status # "approved")
              /\ stranger => /\ response'.status = 403
                             /\ response'.code = "UNAUTHORIZED_APPROVAL"
                             /\ StoreUnchanged
              /\ (~stranger /\ e.status = "approved") =>
                     /\ response'.status = 409
                     /\ response'.code = "ALREADY_APPROVED"
                     /\ StoreUnchanged
              /\ response'.status = 200 =>
                     /\ evaluations' = (evaluations \ {e}) \cup
                                           {[e EXCEPT !.status = "approved"]}
                     /\ UNCHANGED <<evaluation_details, freeze_records>>]_vars

\* a scored evaluation was approved by its evaluator
ApproveAuthorizationWitness ==
    /\ response.op = "approve"
    /\ response.status = 200
    /\ response.user = "eval1"
    /\ \E e \in evaluations : /\ e.id = response.id
                               /\ e.status = "approved"
                               /\ e.total_score > 0
                               /\ DetailsOf(evaluation_details, e.id) # <<>>

\* C24: a create with is_frozen = true in which freeze_reason,
\* freeze_start_date or freeze_end_date is missing creates no evaluation, no
\* detail and no freeze record; it is refused with 400
\* INCOMPLETE_FREEZE_DATA unless the volunteer is unknown or the period has
\* an evaluation already, which are refused first with 404 and 409.
IncompleteFreezeRejected ==
    [][(/\ response'.op = "create"
        /\ response'.body.is_frozen
        /\ \/ response'.body.freeze_reason = Undefined
           \/ response'.body.freeze_start_date = Undefined
           \/ response'.body.freeze_end_date = Undefined)
       => /\ StoreUnchanged
          /\ next_id' = next_id
          /\ response'.code \in {"INCOMPLETE_FREEZE_DATA", "VOLUNTEER_NOT_FOUND",
                                 "EVALUATION_EXISTS"}
          /\ (/\ response'.body.volunteer_id \in DOMAIN Volunteers
              /\ ~\E e \in evaluations :
                     /\ e.volunteer_id = response'.body.volunteer_id
                     /\ e.evaluation_month = response'.body.evaluation_month
                     /\ e.evaluation_year = response'.body.evaluation_year)
             => /\ response'.code = "INCOMPLETE_FREEZE_DATA"
                /\ response'.status = 400]_vars

\* a frozen create that lacks only its end date was refused
IncompleteFreezeRejectedWitness ==
    /\ response.op = "create"
    /\ response.code = "INCOMPLETE_FREEZE_DATA"
    /\ response.body.freeze_reason # Undefined
    /\ response.body.freeze_start_date # Undefined
    /\ response.body.freeze_end_date = Undefined

\* C26: an evaluation enters the table with status draft, the only change
\* of status a request makes is from draft to approved, and an approved
\* evaluation stays approved while it is in the table.
StatusMovesForward ==
    [][/\ \A x \in evaluations' :
              x.id \notin {e.id : e \in evaluations} => x.status = "draft"
       /\ \A e \in evaluations : \A x \in evaluations' :
              (x.id = e.id /\ x.status # e.status) =>
                  (e.status = "draft" /\ x.status = "approved")]_vars

\* the admin updated an approved evaluation, which is still approved
StatusMovesForwardWitness ==
    /\ response.op = "update"
    /\ response.status = 200
    /\ response.body.human_note # Undefined
    /\ \E e \in evaluations : e.id = response.id /\ e.status = "approved"

\* C28: in every reachable state an evaluation with is_frozen = true has
\* its freeze_reason, freeze_start_date and freeze_end_date and there is a
\* freeze record for its volunteer and year.
FrozenEvaluationsComplete ==
    \A e \in evaluations :
        e.is_frozen = TRUE =>
            /\ Truthy(e.freeze_reason)
            /\ Truthy(e.freeze_start_date)
            /\ Truthy(e.freeze_end_date)
            /\ \E i \in DOMAIN freeze_records :
                   /\ freeze_records[i].volunteer_id = e.volunteer_id
                   /\ freeze_records[i].freeze_year = e.evaluation_year

-----------------------------------------------------------------------------
(* The trend of a comparison report *)

\* the percentages of the approved evaluations of a volunteer this year, by
\* month, as numbers
RECURSIVE PercentagesByMonth(_)
PercentagesByMonth(rows) ==
    IF rows = {} THEN <<>>
    ELSE LET e == CHOOSE x \in rows : \A y \in rows : x.evaluation_month <= y.evaluation_month
         IN  <<e.percentage>> \o PercentagesByMonth(rows \ {e})

\* C25: the trend reported for fewer than 3 scores is insufficient data;
\* otherwise, with the scores split at floor(n/2) and d the mean of the
\* second half minus the mean of the first, it is improving when d > 5,
\* declining when d < -5 and stable otherwise.
TrendFromHalves ==
    (response.op = "comparison" /\ response.code = "OK") =>
        \A v \in DOMAIN response.body :
            LET scores == PercentagesByMonth({e \in evaluations :
                              /\ e.volunteer_id = v
                              /\ e.evaluation_year = ThisYear
                              /\ e.status = "approved"})
                n == Len(scores)
                k == n \div 2
                first == Sum(SubSeq(scores, 1, k))
                second == Sum(SubSeq(scores, k + 1, n))
                \* d * k * (n - k), to compare with 5 * k * (n - k)
                scaled == second * k - first * (n - k)
            IN  response.body[v].trend =
                    IF n < 3 THEN "insufficient"
                    ELSE IF scaled > 500 * k * (n - k) THEN "improving"
                    ELSE IF scaled < (0 - 500) * k * (n - k) THEN "declining"
                    ELSE "stable"

-----------------------------------------------------------------------------
(* Totals and details *)

\* C27: in every reachable state the total_score of each evaluation is the
\* sum over its stored details of score_value * weight_used, a null
\* score_value counting as 0.
TotalsMatchDetails ==
    \A e \in evaluations :
        LET rows == DetailsOf(evaluation_details, e.id)
        IN  e.total_score =
                Sum([i \in 1..Len(rows) |->
                        (IF rows[i].score_value = Null THEN 0 ELSE rows[i].score_value.n)
                        * rows[i].weight_used])

-----------------------------------------------------------------------------
(* Updates, approvals and resolutions in flight together *)

\* C29: whatever the interleaving of update and approve requests, the
\* transaction of an update by an evaluator who is not admin changes no
\* evaluation, detail or freeze record when the evaluation is approved at
\* the moment the transaction runs.
ApprovedNotEdited ==
    [][\A r \in Slots :
          (/\ requests[r].pc = "update_transaction"
           /\ requests'[r].pc = "idle"
           /\ Users[requests[r].user].role # "admin"
           /\ \E e \in evaluations : e.id = requests[r].id /\ e.status = "approved")
          => StoreUnchanged]_vars

\* C30: whatever the interleaving of resolve requests, there are never
\* more resolution notes than resolved alerts: each alert is resolved by one
\* request and gets one cumulative note.
ResolvedOnce ==
    Len(cumulative_notes) <= Cardinality({a \in alert_records : a.is_resolved})

====
